---- MODULE Spec2Model ----
(***************************************************************************)
(* Nova: the conversational memory subsystem (memory/unifier.py and its    *)
(* four backends) and the staged-fact protocol of core/brain.py.           *)
(*                                                                         *)
(* Python strings are modelled as sequences of one-character strings, so   *)
(* that strip(), lower(), isalpha(), substring tests and SQL LIKE are      *)
(* computed character by character as the code computes them.              *)
(***************************************************************************)
EXTENDS Integers, Sequences, FiniteSets, TLC

VARIABLES
    facts,          \* DurableStore table facts, in rowid (insertion) order
    people,         \* DurableStore table people, in rowid order
    events,         \* DurableStore table events, in rowid order
    turns,          \* DurableStore table turns, in rowid order
    conversations,  \* DurableStore table conversations (set of ids)
    chroma,         \* SemanticIndex: set of documents, at most one per id
    diskcache,      \* EphemeralCache: set of entries, at most one per key
    audit,          \* AuditLog stream audit.jsonl
    snapshots,      \* AuditLog stream snapshots.jsonl
    write_lock,     \* MemoryUnifier._write_lock: 0 = free, else the holding call
    initialized,    \* MemoryUnifier._initialized
    pc,             \* per call: where the coroutine of the call stands
    op,             \* per call: the operation and its arguments
    sub,            \* per call: state of each backend coroutine of its gather
    result,         \* per call: what the caller got (returned / raised)
    next_id,        \* uuid4(): the next fresh id
    now,            \* the wall clock (datetime.now), in seconds
    memory_save_mode,  \* Brain._memory_save_mode
    pending_memory,    \* Brain._pending_memory: conversation id -> staged facts
    chat,              \* the Brain.chat coroutine: where it stands, what it has done
    router,            \* the ToolRouter.execute coroutine: where it stands, what it has done
    loop,              \* Brain._autonomous_tool_loop: where it stands, what it has done
    registry,          \* plugins.registry.REGISTRY: its tools, and the calls made on it
    boot               \* the tasks inside MemoryUnifier.initialize(), its lock, what it has run

vars == <<facts, people, events, turns, conversations, chroma, diskcache, audit,
          snapshots, write_lock, initialized, pc, op, sub, result, next_id, now,
          memory_save_mode, pending_memory, chat, router, loop, registry, boot>>

stores == <<facts, people, events, turns, conversations, chroma, diskcache, audit,
            snapshots>>

\* the state of the Brain, and of the tasks inside initialize()
brain == <<memory_save_mode, pending_memory, chat, router, loop, registry, boot>>

-----------------------------------------------------------------------------
(* Bounds of the model. *)

\* number of MemoryUnifier calls (coroutines) of one behaviour
MaxCalls == 2

\* number of calls of a behaviour whose calls are made one after the other
MaxSeqCalls == 2

\* number of calls of a behaviour of writes and searches
MaxSearchCalls == 4

\* number of memory calls of a behaviour of chats
MaxChatCalls == 7

\* number of backend coroutines that raise in a behaviour of chats
MaxFaults == 1

-----------------------------------------------------------------------------
(* Python str operations. *)

UpperChars == <<"A","B","C","D","E","F","G","H","I","J","K","L","M","N","O","P","Q","R","S","T","U","V","W","X","Y","Z">>

LowerChars == <<"a","b","c","d","e","f","g","h","i","j","k","l","m","n","o","p","q","r","s","t","u","v","w","x","y","z">>

DigitChars == {"0","1","2","3","4","5","6","7","8","9"}

Whitespace == {" ", "\t", "\n"}

IsUpper(c) == \E i \in DOMAIN UpperChars : UpperChars[i] = c

IsLower(c) == \E i \in DOMAIN LowerChars : LowerChars[i] = c

\* str.isalpha() of one character
IsAlpha(c) == IsUpper(c) \/ IsLower(c)

LowerCh(c) ==
    IF IsUpper(c)
    THEN LowerChars[CHOOSE i \in DOMAIN UpperChars : UpperChars[i] = c]
    ELSE c

\* str.lower()
Lower(s) == [i \in 1..Len(s) |-> LowerCh(s[i])]

SetMin(S) == CHOOSE x \in S : \A y \in S : x <= y

SetMax(S) == CHOOSE x \in S : \A y \in S : x >= y

\* str.strip()
Strip(s) ==
    LET keep == {i \in 1..Len(s) : s[i] \notin Whitespace}
    IN  IF keep = {} THEN <<>> ELSE SubSeq(s, SetMin(keep), SetMax(keep))

\* t in s
Contains(s, t) ==
    \E i \in 0..(Len(s) - Len(t)) : SubSeq(s, i + 1, i + Len(t)) = t

RECURSIVE Concat(_)
\* "".join(parts)
Concat(parts) ==
    IF parts = <<>> THEN <<>> ELSE Head(parts) \o Concat(Tail(parts))

-----------------------------------------------------------------------------
(* MemoryUnifier.add_fact: the write guard. *)

deny_by_attr(attr_key) ==
    CASE attr_key = <<"s","p","o","u","s","e">> ->
           { <<"n","a","m","e">>,
             <<"n","a","m","e","s">>,
             <<"s","p","o","u","s","e">>,
             <<"w","i","f","e">>,
             <<"h","u","s","b","a","n","d">>,
             <<"p","a","r","t","n","e","r">> }
      [] attr_key = <<"c","h","i","l","d">> ->
           { <<"n","a","m","e">>,
             <<"n","a","m","e","s">>,
             <<"c","h","i","l","d">>,
             <<"c","h","i","l","d","r","e","n">>,
             <<"k","i","d">>,
             <<"k","i","d","s">>,
             <<"s","o","n">>,
             <<"s","o","n","s">>,
             <<"d","a","u","g","h","t","e","r">>,
             <<"d","a","u","g","h","t","e","r","s">> }
      [] attr_key = <<"p","a","r","e","n","t">> ->
           { <<"n","a","m","e">>,
             <<"n","a","m","e","s">>,
             <<"p","a","r","e","n","t">>,
             <<"p","a","r","e","n","t","s">>,
             <<"m","o","m">>,
             <<"m","o","t","h","e","r">>,
             <<"d","a","d">>,
             <<"f","a","t","h","e","r">> }
      [] attr_key = <<"m","o","t","h","e","r">> ->
           { <<"n","a","m","e">>,
             <<"n","a","m","e","s">>,
             <<"m","o","m">>,
             <<"m","o","t","h","e","r">> }
      [] attr_key = <<"f","a","t","h","e","r">> ->
           { <<"n","a","m","e">>,
             <<"n","a","m","e","s">>,
             <<"d","a","d">>,
             <<"f","a","t","h","e","r">> }
      [] attr_key = <<"s","i","b","l","i","n","g">> ->
           { <<"n","a","m","e">>,
             <<"n","a","m","e","s">>,
             <<"s","i","b","l","i","n","g">>,
             <<"s","i","b","l","i","n","g","s">>,
             <<"b","r","o","t","h","e","r">>,
             <<"b","r","o","t","h","e","r","s">>,
             <<"s","i","s","t","e","r">>,
             <<"s","i","s","t","e","r","s">> }
      [] attr_key = <<"c","o","u","s","i","n">> ->
           { <<"n","a","m","e">>,
             <<"n","a","m","e","s">>,
             <<"c","o","u","s","i","n">>,
             <<"c","o","u","s","i","n","s">> }
      [] attr_key = <<"f","r","i","e","n","d">> ->
           { <<"n","a","m","e">>,
             <<"n","a","m","e","s">>,
             <<"f","r","i","e","n","d">>,
             <<"f","r","i","e","n","d","s">>,
             <<"b","u","d","d","y">>,
             <<"b","u","d","d","i","e","s">> }
      [] attr_key = <<"p","e","t">> ->
           { <<"n","a","m","e">>,
             <<"n","a","m","e","s">>,
             <<"p","e","t">>,
             <<"p","e","t","s">>,
             <<"d","o","g">>,
             <<"d","o","g","s">>,
             <<"c","a","t">>,
             <<"c","a","t","s">> }
      [] attr_key = <<"c","o","w","o","r","k","e","r">> ->
           { <<"n","a","m","e">>,
             <<"n","a","m","e","s">>,
             <<"c","o","w","o","r","k","e","r">>,
             <<"c","o","w","o","r","k","e","r","s">>,
             <<"c","o","l","l","e","a","g","u","e">>,
             <<"c","o","l","l","e","a","g","u","e","s">> }
      [] OTHER -> {}

\* the keys of deny_by_attr
deny_by_attr_keys ==
    { <<"s","p","o","u","s","e">>, <<"c","h","i","l","d">>, <<"p","a","r","e","n","t">>, <<"m","o","t","h","e","r">>, <<"f","a","t","h","e","r">>,
      <<"s","i","b","l","i","n","g">>, <<"c","o","u","s","i","n">>, <<"f","r","i","e","n","d">>, <<"p","e","t">>, <<"c","o","w","o","r","k","e","r">> }

\* the write guard without its second test, "if not any(ch.isalpha() ...)"
WriteGuardRejects_NoAlphaTest(attribute, value) ==
    LET attr_key == Lower(Strip(attribute))
        v_raw    == Strip(value)
        v_norm   == Lower(v_raw)
    IN  /\ attr_key \in deny_by_attr_keys
        /\ \/ v_raw = <<>>
           \/ v_norm \in deny_by_attr(attr_key)
           \/ Len(v_raw) < 2

\* add_fact's "if attr_key in deny_by_attr: ... return uuid4()": TRUE when the
\* write is skipped
WriteGuardRejects(attribute, value) ==
    LET attr_key == Lower(Strip(attribute))
        v_raw    == Strip(value)
        v_norm   == Lower(v_raw)
    IN  /\ attr_key \in deny_by_attr_keys
        /\ \/ v_raw = <<>>
           \/ v_norm \in deny_by_attr(attr_key)
           \/ Len(v_raw) < 2
           \/ ~ \E i \in 1..Len(v_raw) : IsAlpha(v_raw[i])

-----------------------------------------------------------------------------
(* Canonical texts of the SemanticIndex documents and of the fact hits. *)

\* f"FACT {entity} {attribute} = {value}"
FactText(entity, attribute, value) ==
    Concat(<< <<"F","A","C","T"," ">>, entity, <<" ">>, attribute, <<" ","="," ">>, value >>)

\* f"PERSON {name} {attributes_json}"
PersonText(name, attributes_json) ==
    Concat(<< <<"P","E","R","S","O","N"," ">>, name, <<" ">>, attributes_json >>)

\* f"EVENT {date}: {note}"
EventText(date, note) ==
    Concat(<< <<"E","V","E","N","T"," ">>, date, <<":"," ">>, note >>)

RECURSIVE JsonItems(_)
\* the '"k": "v"' items of json.dumps(attributes, sort_keys=True); attributes is
\* the dict given as a sequence of <<key, value>> pairs in key order
JsonItems(attributes) ==
    IF attributes = <<>> THEN <<>>
    ELSE Concat(<< <<"\"">>, Head(attributes)[1], <<"\"",":"," ","\"">>, Head(attributes)[2], <<"\"">> >>)
         \o (IF Tail(attributes) = <<>> THEN <<>> ELSE <<",", " ">> \o JsonItems(Tail(attributes)))

\* json.dumps(attributes, ensure_ascii=False, sort_keys=True)
JsonDumps(attributes) == <<"{">> \o JsonItems(attributes) \o <<"}">>

-----------------------------------------------------------------------------
(* DurableStore (SQLiteMemoryBackend): the SQL the backend runs. *)

\* an order that puts the row inserted last first
FirstDesc_LastInserted(rows) == Len(rows)

\* the index of the row "ORDER BY created_at DESC" puts first: the greatest
\* created_at, and among equal ones the first in scan order (SQLite's sorter
\* keeps the scan order of equal keys)
FirstDesc(rows) ==
    CHOOSE i \in 1..Len(rows) :
        /\ \A j \in 1..Len(rows) : rows[j].created_at <= rows[i].created_at
        /\ \A j \in 1..(i - 1) : rows[j].created_at < rows[i].created_at

\* the index of the row "ORDER BY created_at ASC" puts first
FirstAsc(rows) ==
    CHOOSE i \in 1..Len(rows) :
        /\ \A j \in 1..Len(rows) : rows[j].created_at >= rows[i].created_at
        /\ \A j \in 1..(i - 1) : rows[j].created_at > rows[i].created_at

Without(rows, i) == SubSeq(rows, 1, i - 1) \o SubSeq(rows, i + 1, Len(rows))

RECURSIVE OrderByCreatedDesc(_)
\* ORDER BY created_at DESC
OrderByCreatedDesc(rows) ==
    IF rows = <<>> THEN <<>>
    ELSE << rows[FirstDesc(rows)] >> \o OrderByCreatedDesc(Without(rows, FirstDesc(rows)))

RECURSIVE OrderByCreatedAsc(_)
\* ORDER BY created_at ASC
OrderByCreatedAsc(rows) ==
    IF rows = <<>> THEN <<>>
    ELSE << rows[FirstAsc(rows)] >> \o OrderByCreatedAsc(Without(rows, FirstAsc(rows)))

\* LIMIT n (SQLite: a negative LIMIT is no limit)
Limit(rows, n) == IF n < 0 THEN rows ELSE SubSeq(rows, 1, IF n < Len(rows) THEN n ELSE Len(rows))

RECURSIVE LikeMatch(_, _)
\* SQLite "s LIKE p": % matches any run, _ one character, letters match
\* case-insensitively (ASCII)
LikeMatch(p, s) ==
    IF p = <<>> THEN s = <<>>
    ELSE IF Head(p) = "%"
         THEN LikeMatch(Tail(p), s) \/ (s # <<>> /\ LikeMatch(p, Tail(s)))
    ELSE IF s = <<>> THEN FALSE
    ELSE IF Head(p) = "_" THEN LikeMatch(Tail(p), Tail(s))
    ELSE LowerCh(Head(p)) = LowerCh(Head(s)) /\ LikeMatch(Tail(p), Tail(s))

\* like = f"%{q}%"
LikePattern(q) == <<"%">> \o q \o <<"%">>

\* SQLiteMemoryBackend.add_fact: INSERT INTO facts, created_at = _now_iso()
SqliteAddFact(tbl, o, t) ==
    Append(tbl, [id |-> o.id, entity |-> o.entity, attribute |-> o.attribute,
                 value |-> o.value, confidence |-> o.confidence, created_at |-> t])

\* an upsert that writes the whole row: INSERT OR REPLACE
SqliteUpsertPerson_Replace(tbl, o, t) ==
    IF \E i \in 1..Len(tbl) : tbl[i].name = o.name
    THEN [i \in 1..Len(tbl) |->
            IF tbl[i].name = o.name
            THEN [id |-> o.id, name |-> o.name,
                  attributes_json |-> o.attributes_json, created_at |-> t]
            ELSE tbl[i]]
    ELSE Append(tbl, [id |-> o.id, name |-> o.name,
                      attributes_json |-> o.attributes_json, created_at |-> t])

\* SQLiteMemoryBackend.upsert_person: INSERT ... ON CONFLICT(name) DO UPDATE SET
\* attributes_json = excluded.attributes_json
SqliteUpsertPerson(tbl, o, t) ==
    IF \E i \in 1..Len(tbl) : tbl[i].name = o.name
    THEN [i \in 1..Len(tbl) |->
            IF tbl[i].name = o.name
            THEN [tbl[i] EXCEPT !.attributes_json = o.attributes_json]
            ELSE tbl[i]]
    ELSE Append(tbl, [id |-> o.id, name |-> o.name,
                      attributes_json |-> o.attributes_json, created_at |-> t])

\* SQLiteMemoryBackend.add_event: INSERT INTO events
SqliteAddEvent(tbl, o, t) ==
    Append(tbl, [id |-> o.id, date |-> o.date, note |-> o.note, created_at |-> t])

\* SQLiteMemoryBackend.add_turn: INSERT INTO turns, created_at = created_at_iso
SqliteAddTurn(tbl, o) ==
    Append(tbl, [id |-> o.id, conversation_id |-> o.conversation_id, role |-> o.role,
                 content |-> o.content, created_at |-> o.created_at])

\* SQLiteMemoryBackend.search_facts
SearchFacts(q, limit) ==
    LET like == LikePattern(q)
        Hit(r) == \/ LikeMatch(like, r.entity)
                  \/ LikeMatch(like, r.attribute)
                  \/ LikeMatch(like, r.value)
    IN  Limit(OrderByCreatedDesc(SelectSeq(facts, Hit)), limit)

\* SQLiteMemoryBackend.count_records
CountRecords == [facts |-> Len(facts), people |-> Len(people), events |-> Len(events)]

SeqIds(rows) == {rows[i].id : i \in 1..Len(rows)}

\* the ids of every fact, person and event row of the DurableStore
DurableIds == SeqIds(facts) \cup SeqIds(people) \cup SeqIds(events)

-----------------------------------------------------------------------------
(* MemoryUnifier.get_facts / get_latest_fact. *)

\* get_facts(entity, attribute, limit, newest_first) with an attribute given
GetFacts(tbl, entity, attribute, limit, newest_first) ==
    LET ent == Strip(entity)
        attr == Strip(attribute)
        Hit(r) == r.entity = ent /\ (attr = <<>> \/ r.attribute = attr)
        rows == SelectSeq(tbl, Hit)
    IN  Limit(IF newest_first THEN OrderByCreatedDesc(rows) ELSE OrderByCreatedAsc(rows), limit)

\* get_latest_fact: hits[0] if hits else None; None is the empty sequence here
GetLatestFact(tbl, entity, attribute) == GetFacts(tbl, entity, attribute, 1, TRUE)

-----------------------------------------------------------------------------
(* SemanticIndex (ChromaMemoryBackend) and EphemeralCache (DiskCacheBackend). *)

\* collection.upsert(ids=[doc_id], documents=[text], metadatas=[meta])
ChromaUpsert(coll, doc) == {d \in coll : d.id # doc.id} \cup {doc}

\* a document of the index: its id, its text, and the keys "kind" and "role"
\* of its metadata as search reads them, meta.get("role", "") being "" for
\* the documents of the code, whose metadata has no "role"
FactDoc(r) ==
    [id |-> r.id, text |-> FactText(r.entity, r.attribute, r.value), kind |-> "fact",
     role |-> ""]

PersonDoc(r) ==
    [id |-> r.id, text |-> PersonText(r.name, r.attributes_json), kind |-> "person",
     role |-> ""]

EventDoc(r) ==
    [id |-> r.id, text |-> EventText(r.date, r.note), kind |-> "event", role |-> ""]

\* a rebuild that indexes the facts only
RebuiltIndex_FactsOnly(fs, ps, es) == {FactDoc(fs[i]) : i \in 1..Len(fs)}

\* the index rebuild_semantic_index builds from the rows it read
RebuiltIndex(fs, ps, es) ==
    {FactDoc(fs[i]) : i \in 1..Len(fs)} \cup {PersonDoc(ps[i]) : i \in 1..Len(ps)}
        \cup {EventDoc(es[i]) : i \in 1..Len(es)}

\* a rebuild whose fact counter is not reset between two runs: it goes on
\* from the count of the rebuild logged last
RebuildCounts_NotReset(fs, ps, es) ==
    [kind |-> "semantic_index_rebuild",
     facts |-> Len(fs) + (IF snapshots # <<>> /\ snapshots[Len(snapshots)].kind = "semantic_index_rebuild"
                          THEN snapshots[Len(snapshots)].facts ELSE 0),
     people |-> Len(ps), events |-> Len(es)]

\* the record rebuild_semantic_index appends to snapshots.jsonl and returns
RebuildCounts(fs, ps, es) ==
    [kind |-> "semantic_index_rebuild", facts |-> Len(fs), people |-> Len(ps), events |-> Len(es)]

\* cache keys: f"fact:{id}", f"event:{id}", f"turn:{id}", f"person:{name.lower()}",
\* f"search:{conversation_id}:{terms or q_norm}:{limit}"
CacheKey(ns, id, text, conv, limit) ==
    [ns |-> ns, id |-> id, text |-> text, conv |-> conv, limit |-> limit]

\* Cache.set(key, value, expire=ttl_s)
CacheSet(cache, key, value, ttl_s, t) ==
    {e \in cache : e.key # key} \cup {[key |-> key, value |-> value, expires |-> t + ttl_s]}

\* a get that never lets an entry expire
CacheGet_Unexpiring(cache, key, t) == {e \in cache : e.key = key}

\* Cache.get(key, None): the unexpired entries under key (none or one)
CacheGet(cache, key, t) == {e \in cache : e.key = key /\ e.expires > t}

-----------------------------------------------------------------------------
(* MemoryUnifier: the calls of one behaviour and their inputs. *)

\* the calls of a behaviour, in the order they are made
Calls == DOMAIN pc

Backends == {"sqlite", "json", "chroma", "diskcache"}

\* ttl_s=86400 of the records cached by a write
TTL_RECORD == 86400

\* how far the clock may have moved on when a backend reads it
ClockSteps == {0, 1}

Entities == { <<"u","s","e","r">> }

Attributes == { <<"n","a","m","e">>, <<" ","S","p","o","u","s","e">> }

GuardAttributes == { <<"s","p","o","u","s","e">>, <<" ","S","p","o","u","s","e">> }

SpecValues == { <<"J","o">> }

Values == { <<>>, <<"x">>, <<" ","W","i","f","e">>, <<"4","2">>, <<"J","o">> }

Confidences == {70}

PersonNames == { <<"A","n","n">> }

AttributeMaps == { <<>>, << << <<"r","e","l","a","t","i","o","n">>, <<"u","s","e","r">> >> >> }

EventDates == { <<"m","a","y">> }

EventNotes == { <<"g","y","m">> }

Conversations == {"c1"}

\* the conversations of the chats
ChatConversations == {"c1", "c2"}

Roles == { <<"u","s","e","r">>, <<"a","s","s","i","s","t","a","n","t">> }

Contents == { <<"h","i">> }

NoOp == [kind |-> "none"]

NoResult == [status |-> "none", id |-> 0]

NoSubs == [b \in Backends |-> "none"]

-----------------------------------------------------------------------------
(* MemoryUnifier.initialize and _ensure_semantic_index. *)

\* an _ensure_semantic_index that does not look at the count of the index
EnsureRebuilds_AnyIndex ==
    /\ ~ initialized
    /\ CountRecords.facts + CountRecords.people + CountRecords.events > 0

\* _ensure_semantic_index rebuilds: first initialize(), stable_total > 0 and
\* chroma_count <= 0
EnsureRebuilds ==
    /\ ~ initialized
    /\ CountRecords.facts + CountRecords.people + CountRecords.events > 0
    /\ Cardinality(chroma) <= 0

\* the SemanticIndex after initialize()
EnsuredIndex == IF EnsureRebuilds THEN RebuiltIndex(facts, people, events) ELSE chroma

\* snapshots.jsonl after initialize()
EnsuredSnapshots ==
    IF EnsureRebuilds
    THEN Append(snapshots, RebuildCounts(facts, people, events))
    ELSE snapshots

\* await self.initialize()
initialize ==
    /\ initialized' = TRUE
    /\ chroma' = EnsuredIndex
    /\ snapshots' = EnsuredSnapshots

-----------------------------------------------------------------------------
(* MemoryUnifier.initialize, await by await. A task that calls it stands at  *)
(* "new" before the call, at "wait" before "async with self._init_lock", at  *)
(* "locked" once it holds the lock, at "sqlite", "json", "ensure", "rebuild" *)
(* and "set" before the statement of that name, and at "past" once the call  *)
(* has returned.                                                             *)

\* no task calls initialize()
NoBoot ==
    [pc |-> <<>>, lock |-> 0, sqlite_initialized |-> FALSE, schema_runs |-> 0,
     ensure_runs |-> 0, rebuild_runs |-> 0]

\* the tasks that call initialize()
BootTasks == DOMAIN boot.pc

\* the variables initialize() leaves alone
beside_boot == <<memory_save_mode, pending_memory, chat, router, loop, registry, facts,
                 people, events, turns, conversations, diskcache, audit, write_lock, pc, op,
                 sub, result, next_id, now>>

\* the task goes to the place
BootAt(t, place) == [boot EXCEPT !.pc[t] = place]

\* if self._initialized: return
BootEnter(t) ==
    /\ boot.pc[t] = "new"
    /\ boot' = BootAt(t, IF initialized THEN "past" ELSE "wait")
    /\ UNCHANGED <<initialized, chroma, snapshots, beside_boot>>

\* async with self._init_lock: the lock is free and the task takes it
BootAcquire(t) ==
    /\ boot.pc[t] = "wait"
    /\ boot.lock = 0
    /\ boot' = [BootAt(t, "locked") EXCEPT !.lock = t]
    /\ UNCHANGED <<initialized, chroma, snapshots, beside_boot>>

\* a second test that lets every task that holds the lock go on
BootRecheck_Skipped(t) ==
    /\ boot.pc[t] = "locked"
    /\ boot' = BootAt(t, "sqlite")
    /\ UNCHANGED <<initialized, chroma, snapshots, beside_boot>>

\* if self._initialized: return, under the lock, which the return releases
BootRecheck(t) ==
    /\ boot.pc[t] = "locked"
    /\ boot' = IF initialized
               THEN [BootAt(t, "past") EXCEPT !.lock = 0]
               ELSE BootAt(t, "sqlite")
    /\ UNCHANGED <<initialized, chroma, snapshots, beside_boot>>

\* await self._sqlite.initialize(): the schema is set up unless the backend
\* is initialized
BootSqlite(t) ==
    /\ boot.pc[t] = "sqlite"
    /\ boot' = [BootAt(t, "json") EXCEPT
                    !.sqlite_initialized = TRUE,
                    !.schema_runs = IF boot.sqlite_initialized THEN @ ELSE @ + 1]
    /\ UNCHANGED <<initialized, chroma, snapshots, beside_boot>>

\* await self._json.initialize()
BootJson(t) ==
    /\ boot.pc[t] = "json"
    /\ boot' = BootAt(t, "ensure")
    /\ UNCHANGED <<initialized, chroma, snapshots, beside_boot>>

\* _ensure_semantic_index up to its rebuild: the counts are read; it returns
\* if stable_total <= 0, and rebuilds if chroma_count <= 0
BootEnsure(t) ==
    LET stable_total == CountRecords.facts + CountRecords.people + CountRecords.events
        chroma_count == Cardinality(chroma)
    IN  /\ boot.pc[t] = "ensure"
        /\ boot' = [BootAt(t, IF stable_total > 0 /\ chroma_count <= 0
                               THEN "rebuild" ELSE "set") EXCEPT
                        !.ensure_runs = @ + 1]
        /\ UNCHANGED <<initialized, chroma, snapshots, beside_boot>>

\* await self.rebuild_semantic_index()
BootRebuild(t) ==
    /\ boot.pc[t] = "rebuild"
    /\ boot' = [BootAt(t, "set") EXCEPT !.rebuild_runs = @ + 1]
    /\ chroma' = RebuiltIndex(facts, people, events)
    /\ snapshots' = Append(snapshots, RebuildCounts(facts, people, events))
    /\ UNCHANGED <<initialized, beside_boot>>

\* rebuild_semantic_index raises after chroma.reset(): initialize() logs the
\* exception and goes on
BootRebuildRaises(t) ==
    /\ boot.pc[t] = "rebuild"
    /\ boot' = [BootAt(t, "set") EXCEPT !.rebuild_runs = @ + 1]
    /\ chroma' = {}
    /\ UNCHANGED <<initialized, snapshots, beside_boot>>

\* self._initialized = True, and the lock is released
BootSet(t) ==
    /\ boot.pc[t] = "set"
    /\ boot' = [BootAt(t, "past") EXCEPT !.lock = 0]
    /\ initialized' = TRUE
    /\ UNCHANGED <<chroma, snapshots, beside_boot>>

\* a task whose initialize() has returned makes its own call
BootProceeds ==
    Cardinality({i \in DOMAIN pc : pc[i] # "new"})
        < Cardinality({t \in BootTasks : boot.pc[t] = "past"})

-----------------------------------------------------------------------------
(* The write path: add_fact, upsert_person, add_event, ingest_turn. *)

\* a call starts when the calls before it have started
FirstNew(i) == pc[i] = "new" /\ \A j \in 1..(i - 1) : pc[j] # "new"

\* a read that would take the write lock like a write does
ReadStart_UnderWriteLock(i) == FirstNew(i) /\ write_lock = 0

\* search, get_facts and get_latest_fact start with "await self.initialize()"
\* and take no lock of the unifier after it
ReadStart(i) == FirstNew(i)

\* the coroutines ingest_turn hands to asyncio.gather leave out the SemanticIndex
BackendsOf(kind) ==
    IF kind = "ingest_turn" THEN {"sqlite", "json", "diskcache"} ELSE Backends

IsWrite(o) == o.kind \in {"add_fact", "upsert_person", "add_event", "ingest_turn"}

\* add_fact up to "async with self._write_lock": the write guard, initialize(),
\* fact_id = uuid4()
add_fact(i, entity, attribute, value, confidence) ==
    /\ FirstNew(i)
    /\ next_id' = next_id + 1
    /\ IF WriteGuardRejects(attribute, value)
       THEN /\ op' = [op EXCEPT ![i] = [kind |-> "add_fact", id |-> 0, entity |-> entity,
                          attribute |-> attribute, value |-> value,
                          confidence |-> confidence]]
            /\ result' = [result EXCEPT ![i] = [status |-> "returned", id |-> next_id]]
            /\ pc' = [pc EXCEPT ![i] = "done"]
            /\ UNCHANGED <<chroma, snapshots, initialized>>
       ELSE /\ initialize
            /\ op' = [op EXCEPT ![i] = [kind |-> "add_fact", id |-> next_id, entity |-> entity,
                          attribute |-> attribute, value |-> value,
                          confidence |-> confidence]]
            /\ pc' = [pc EXCEPT ![i] = "wait_lock"]
            /\ UNCHANGED result
    /\ UNCHANGED <<brain, facts, people, events, turns, conversations, diskcache, audit,
                   write_lock, sub, now>>

\* upsert_person up to the lock
upsert_person(i, name, attributes) ==
    /\ FirstNew(i)
    /\ initialize
    /\ next_id' = next_id + 1
    /\ op' = [op EXCEPT ![i] = [kind |-> "upsert_person", id |-> next_id, name |-> name,
                  attributes |-> attributes, attributes_json |-> JsonDumps(attributes)]]
    /\ pc' = [pc EXCEPT ![i] = "wait_lock"]
    /\ UNCHANGED <<brain, facts, people, events, turns, conversations, diskcache, audit,
                   write_lock, sub, result, now>>

\* add_event up to the lock
add_event(i, date, note) ==
    /\ FirstNew(i)
    /\ initialize
    /\ next_id' = next_id + 1
    /\ op' = [op EXCEPT ![i] = [kind |-> "add_event", id |-> next_id, date |-> date,
                  note |-> note]]
    /\ pc' = [pc EXCEPT ![i] = "wait_lock"]
    /\ UNCHANGED <<brain, facts, people, events, turns, conversations, diskcache, audit,
                   write_lock, sub, result, now>>

\* ingest_turn up to the lock: created_at = _now().isoformat() is read here
ingest_turn(i, conversation_id, role, content) ==
    /\ FirstNew(i)
    /\ initialize
    /\ next_id' = next_id + 1
    /\ \E d \in ClockSteps : now' = now + d
    /\ op' = [op EXCEPT ![i] = [kind |-> "ingest_turn", id |-> next_id,
                  conversation_id |-> conversation_id, role |-> role,
                  content |-> content, created_at |-> now']]
    /\ pc' = [pc EXCEPT ![i] = "wait_lock"]
    /\ UNCHANGED <<brain, facts, people, events, turns, conversations, diskcache, audit,
                   write_lock, sub, result>>

\* "async with self._write_lock" (asyncio.Lock wakes its waiters first come,
\* first served) and asyncio.gather, which starts every backend coroutine
AcquireLock(i) ==
    /\ pc[i] = "wait_lock"
    /\ write_lock = 0
    /\ \A j \in 1..(i - 1) : pc[j] # "wait_lock"
    /\ write_lock' = i
    /\ pc' = [pc EXCEPT ![i] = "gather"]
    /\ sub' = [sub EXCEPT ![i] =
                  [b \in Backends |-> IF b \in BackendsOf(op[i].kind) THEN "run" ELSE "none"]]
    /\ UNCHANGED <<brain, stores, initialized, op, result, next_id, now>>

\* the record append_audit writes
AuditRecord(o) ==
    [kind |-> CASE o.kind = "add_fact" -> "fact"
                [] o.kind = "upsert_person" -> "person"
                [] o.kind = "add_event" -> "event"
                [] o.kind = "ingest_turn" -> "turn",
     id |-> o.id]

\* the document a write upserts into the SemanticIndex
IndexDoc(o) ==
    CASE o.kind = "add_fact" ->
           [id |-> o.id, text |-> FactText(o.entity, o.attribute, o.value), kind |-> "fact",
            role |-> ""]
      [] o.kind = "upsert_person" ->
           [id |-> o.id, text |-> PersonText(o.name, o.attributes_json), kind |-> "person",
            role |-> ""]
      [] o.kind = "add_event" ->
           [id |-> o.id, text |-> EventText(o.date, o.note), kind |-> "event", role |-> ""]

\* the key of the record a write caches
RecordKey(o) ==
    CASE o.kind = "add_fact" -> CacheKey("fact", o.id, <<>>, "", 0)
      [] o.kind = "upsert_person" -> CacheKey("person", 0, Lower(o.name), "", 0)
      [] o.kind = "add_event" -> CacheKey("event", o.id, <<>>, "", 0)
      [] o.kind = "ingest_turn" -> CacheKey("turn", o.id, <<>>, "", 0)

\* the value of the record a write caches
RecordValue(o) ==
    CASE o.kind = "add_fact" ->
           [entity |-> o.entity, attribute |-> o.attribute, value |-> o.value,
            confidence |-> o.confidence]
      [] o.kind = "upsert_person" -> [attributes |-> o.attributes]
      [] o.kind = "add_event" -> [date |-> o.date, note |-> o.note]
      [] o.kind = "ingest_turn" ->
           [conversation_id |-> o.conversation_id, role |-> o.role, content |-> o.content]

\* one backend coroutine of a gather runs to its end and succeeds
BackendOk(i, b) ==
    /\ sub[i][b] = "run"
    /\ sub' = [sub EXCEPT ![i][b] = "ok"]
    /\ \/ /\ b = "sqlite"
          /\ \E d \in ClockSteps : now' = now + d
          /\ facts' = IF op[i].kind = "add_fact"
                      THEN SqliteAddFact(facts, op[i], now') ELSE facts
          /\ people' = IF op[i].kind = "upsert_person"
                       THEN SqliteUpsertPerson(people, op[i], now') ELSE people
          /\ events' = IF op[i].kind = "add_event"
                       THEN SqliteAddEvent(events, op[i], now') ELSE events
          /\ turns' = IF op[i].kind = "ingest_turn"
                      THEN SqliteAddTurn(turns, op[i]) ELSE turns
          /\ conversations' = IF op[i].kind = "ingest_turn"
                              THEN conversations \cup {op[i].conversation_id}
                              ELSE conversations
          /\ UNCHANGED <<chroma, diskcache, audit, snapshots>>
       \/ /\ b = "json"
          /\ audit' = Append(audit, AuditRecord(op[i]))
          /\ UNCHANGED <<facts, people, events, turns, conversations, chroma, diskcache,
                         snapshots, now>>
       \/ /\ b = "chroma"
          /\ chroma' = ChromaUpsert(chroma, IndexDoc(op[i]))
          /\ UNCHANGED <<facts, people, events, turns, conversations, diskcache, audit,
                         snapshots, now>>
       \/ /\ b = "diskcache"
          /\ diskcache' = CacheSet(diskcache, RecordKey(op[i]), RecordValue(op[i]),
                                   TTL_RECORD, now)
          /\ UNCHANGED <<facts, people, events, turns, conversations, chroma, audit,
                         snapshots, now>>
    /\ UNCHANGED <<brain, write_lock, initialized, pc, op, result, next_id>>

\* one backend coroutine of a gather raises
BackendFail(i, b) ==
    /\ sub[i][b] = "run"
    /\ sub' = [sub EXCEPT ![i][b] = "fail"]
    /\ UNCHANGED <<brain, stores, write_lock, initialized, pc, op, result, next_id, now>>

\* a gather that lets only the best-effort backends raise
GatherRaises_BestEffortOnly(s) == \E b \in Backends \ {"sqlite"} : s[b] = "fail"

\* asyncio.gather(...) without return_exceptions: the first exception of a
\* backend coroutine is raised in the awaiting call
GatherRaises(s) == \E b \in Backends : s[b] = "fail"

\* the await on gather ends: an exception is to be raised, or every coroutine
\* has finished
GatherDone(s) == GatherRaises(s) \/ \A b \in Backends : s[b] # "run"

\* the call comes back from gather: the lock is released on the way out, and
\* the call returns its id or raises; coroutines of the gather that have not
\* finished are not cancelled and keep running
GatherFinish(i) ==
    /\ pc[i] = "gather"
    /\ GatherDone(sub[i])
    /\ write_lock' = 0
    /\ result' = [result EXCEPT ![i] =
                     IF GatherRaises(sub[i])
                     THEN [status |-> "raised", id |-> 0]
                     ELSE [status |-> "returned", id |-> op[i].id]]
    /\ pc' = [pc EXCEPT ![i] = "done"]
    /\ UNCHANGED <<brain, stores, initialized, op, sub, next_id, now>>

-----------------------------------------------------------------------------
(* MemoryUnifier.purge_facts and rebuild_semantic_index. *)

\* vilike.replace("*", "%")
ReplaceStar(s) == [i \in 1..Len(s) |-> IF s[i] = "*" THEN "%" ELSE s[i]]

\* vin = [v.strip() for v in (value_in or []) if isinstance(v, str) and v.strip()]
StrippedValues(value_in) == {Strip(v) : v \in value_in} \ {<<>>}

\* a WHERE clause of the entity alone
PurgeWhere_EntityOnly(r, entity, attribute, value_in, value_ilike) == r.entity = Strip(entity)

\* the WHERE clause purge_facts builds
PurgeWhere(r, entity, attribute, value_in, value_ilike) ==
    /\ r.entity = Strip(entity)
    /\ Strip(attribute) # <<>> => r.attribute = Strip(attribute)
    /\ StrippedValues(value_in) # {} => r.value \in StrippedValues(value_in)
    /\ Strip(value_ilike) # <<>> => LikeMatch(ReplaceStar(Strip(value_ilike)), r.value)

\* purge_facts: SELECT id, then DELETE when not dry_run and something matched
purge_facts(i, entity, attribute, value_in, value_ilike, dry_run) ==
    LET Hit(r) == PurgeWhere(r, entity, attribute, value_in, value_ilike)
        Miss(r) == ~ Hit(r)
        id_rows == SelectSeq(facts, Hit)
        matched == Len(id_rows)
    IN  /\ FirstNew(i)
        /\ initialize
        /\ facts' = IF ~ dry_run /\ matched > 0 THEN SelectSeq(facts, Miss) ELSE facts
        /\ op' = [op EXCEPT ![i] = [kind |-> "purge_facts", entity |-> entity,
                      attribute |-> attribute, value_in |-> value_in,
                      value_ilike |-> value_ilike, dry_run |-> dry_run]]
        /\ result' = [result EXCEPT ![i] =
                         [status |-> "returned", id |-> 0, matched |-> matched,
                          deleted |-> IF ~ dry_run /\ matched > 0 THEN matched ELSE 0,
                          ids |-> [k \in 1..matched |-> id_rows[k].id]]]
        /\ pc' = [pc EXCEPT ![i] = "done"]
        /\ UNCHANGED <<brain, people, events, turns, conversations, diskcache, audit,
                       write_lock, sub, next_id, now>>

\* rebuild_semantic_index: await self._chroma.reset()
RebuildReset(i) ==
    /\ FirstNew(i)
    /\ chroma' = {}
    /\ op' = [op EXCEPT ![i] = [kind |-> "rebuild_semantic_index", facts |-> <<>>,
                  people |-> <<>>, events |-> <<>>]]
    /\ pc' = [pc EXCEPT ![i] = "rebuild_read"]
    /\ UNCHANGED <<brain, facts, people, events, turns, conversations, diskcache, audit,
                   snapshots, write_lock, initialized, sub, result, next_id, now>>

\* rebuild_semantic_index: all_facts, all_people, all_events
RebuildRead(i) ==
    /\ pc[i] = "rebuild_read"
    /\ op' = [op EXCEPT ![i] = [kind |-> "rebuild_semantic_index", facts |-> facts,
                  people |-> people, events |-> events]]
    /\ pc' = [pc EXCEPT ![i] = "rebuild_upsert"]
    /\ UNCHANGED <<brain, stores, write_lock, initialized, sub, result, next_id, now>>

\* rebuild_semantic_index: upsert_text of every row read, append_snapshot, return;
\* the result keeps, next to the counts the call returns, the index as the
\* call left it
RebuildUpsert(i) ==
    LET docs == RebuiltIndex(op[i].facts, op[i].people, op[i].events)
        counts == RebuildCounts(op[i].facts, op[i].people, op[i].events)
    IN  /\ pc[i] = "rebuild_upsert"
        /\ chroma' = {d \in chroma : \A n \in docs : n.id # d.id} \cup docs
        /\ snapshots' = Append(snapshots, counts)
        /\ result' = [result EXCEPT ![i] =
                         [status |-> "returned", id |-> 0, facts |-> counts.facts,
                          people |-> counts.people, events |-> counts.events,
                          index |-> chroma']]
        /\ pc' = [pc EXCEPT ![i] = "done"]
        /\ UNCHANGED <<brain, facts, people, events, turns, conversations, diskcache, audit,
                       write_lock, initialized, op, sub, next_id, now>>

-----------------------------------------------------------------------------
(* SemanticIndex: _HashEmbeddingFunction and ChromaMemoryBackend.query.     *)
(* Scores and similarities are kept in thousandths, rounded down.           *)

\* the character classes of the code: "word" for str.split() (anything but
\* whitespace), "term" for [a-z0-9'] of search's re.findall, and the classes
\* of the capture groups of _extract_facts under re.IGNORECASE
InClass(cls, c) ==
    CASE cls = "word" -> c \notin Whitespace
      [] cls = "term" -> IsLower(c) \/ c \in DigitChars \/ c = "'"
      [] cls = "name" -> IsAlpha(c) \/ c \in DigitChars \/ c \in {"_", "-"}
      [] cls = "place" -> IsAlpha(c) \/ c \in DigitChars \/ c \in {" ", "_", "-"}
      [] cls = "spouse" -> IsAlpha(c) \/ c \in DigitChars \/ c \in {"'", "_", "-"}
      [] cls = "person" -> IsAlpha(c) \/ c \in {"-", "'"}

RECURSIVE SplitRuns(_, _, _)
\* the maximal runs of s made of characters of the class; cur is the run
\* being read
SplitRuns(s, cls, cur) ==
    IF s = <<>> THEN (IF cur = <<>> THEN <<>> ELSE <<cur>>)
    ELSE IF InClass(cls, Head(s)) THEN SplitRuns(Tail(s), cls, Append(cur, Head(s)))
    ELSE (IF cur = <<>> THEN <<>> ELSE <<cur>>) \o SplitRuns(Tail(s), cls, <<>>)

\* parts = t.split() of t = str(text).strip().lower()
EmbedParts(text) == SplitRuns(Lower(Strip(text)), "word", <<>>)

\* idx and sign of a part: int.from_bytes(blake2b(p)[:4], "little") % dim and
\* the low bit of byte 4, tabulated for the words of the model's texts
HashPart(tok) ==
    CASE tok = <<"f","a","c","t">> -> [idx |-> 44, sign |-> 1]
      [] tok = <<"u","s","e","r">> -> [idx |-> 47, sign |-> -1]
      [] tok = <<"n","a","m","e">> -> [idx |-> 87, sign |-> 1]
      [] tok = <<"=">> -> [idx |-> 150, sign |-> -1]
      [] tok = <<"j","o">> -> [idx |-> 60, sign |-> 1]
      [] tok = <<"a","l">> -> [idx |-> 45, sign |-> 1]
      [] tok = <<"p","e","r","s","o","n">> -> [idx |-> 107, sign |-> -1]
      [] tok = <<"a","n","n">> -> [idx |-> 141, sign |-> -1]
      [] tok = <<"{","}">> -> [idx |-> 129, sign |-> -1]
      [] tok = <<"{","\"","r","e","l","a","t","i","o","n","\"",":">> -> [idx |-> 221, sign |-> -1]
      [] tok = <<"\"","u","s","e","r","\"","}">> -> [idx |-> 263, sign |-> -1]
      [] tok = <<"e","v","e","n","t">> -> [idx |-> 123, sign |-> -1]
      [] tok = <<"m","a","y",":">> -> [idx |-> 170, sign |-> -1]
      [] tok = <<"g","y","m">> -> [idx |-> 202, sign |-> -1]
      [] tok = <<"s","p","o","u","s","e">> -> [idx |-> 366, sign |-> 1]
      [] tok = <<"h","i">> -> [idx |-> 16, sign |-> -1]
      [] tok = <<"w","i","f","e">> -> [idx |-> 281, sign |-> 1]
      [] tok = <<"x">> -> [idx |-> 74, sign |-> -1]
      [] tok = <<"4","2">> -> [idx |-> 87, sign |-> 1]
      [] tok = <<"u","s","e">> -> [idx |-> 302, sign |-> -1]
      [] tok = <<"w","h","o">> -> [idx |-> 234, sign |-> -1]
      [] tok = <<"i","s">> -> [idx |-> 154, sign |-> -1]
      [] tok = <<"c","h","i","l","d">> -> [idx |-> 61, sign |-> -1]
      [] tok = <<"b","o">> -> [idx |-> 327, sign |-> -1]
      [] tok = <<"m","o","t","h","e","r">> -> [idx |-> 203, sign |-> -1]
      [] tok = <<"y","e","s">> -> [idx |-> 81, sign |-> -1]
      [] tok = <<"n","o">> -> [idx |-> 382, sign |-> -1]
      [] tok = <<"d","o">> -> [idx |-> 101, sign |-> 1]
      [] tok = <<"n","o","t">> -> [idx |-> 127, sign |-> 1]
      [] tok = <<"r","e","m","e","m","b","e","r">> -> [idx |-> 313, sign |-> -1]
      [] tok = <<"t","h","i","s">> -> [idx |-> 54, sign |-> 1]
      [] tok = <<"m","y">> -> [idx |-> 173, sign |-> -1]
      [] tok = <<"m","o","m">> -> [idx |-> 101, sign |-> 1]
      [] tok = <<"p","l","e","a","s","e">> -> [idx |-> 311, sign |-> 1]
      [] tok = <<"k","i","d","s">> -> [idx |-> 172, sign |-> 1]
      [] tok = <<"a","r","e">> -> [idx |-> 195, sign |-> -1]
      [] tok = <<"a","n","d">> -> [idx |-> 47, sign |-> -1]
      [] tok = <<"r","u","n">> -> [idx |-> 379, sign |-> -1]
      [] OTHER -> [idx |-> 0, sign |-> 1]

\* idx and sign of every part of a text
HashParts(parts) == [i \in DOMAIN parts |-> HashPart(parts[i])]

RECURSIVE BucketSum(_, _)
\* vec[b] before normalisation: the signs of the parts hashed to bucket b
BucketSum(hs, b) ==
    IF hs = <<>> THEN 0
    ELSE (IF Head(hs).idx = b THEN Head(hs).sign ELSE 0) + BucketSum(Tail(hs), b)

\* the buckets the parts of a text fall into
BucketsOf(hs) == {hs[i].idx : i \in DOMAIN hs}

RECURSIVE DotOver(_, _, _)
\* the inner product of two unnormalised vectors over the buckets B
DotOver(B, p, q) ==
    IF B = {} THEN 0
    ELSE LET b == CHOOSE x \in B : TRUE
         IN  BucketSum(p, b) * BucketSum(q, b) + DotOver(B \ {b}, p, q)

\* the inner product of the unnormalised vectors of two texts
EmbedDot(p, q) == DotOver(BucketsOf(p) \cap BucketsOf(q), p, q)

RECURSIVE ISqrtIn(_, _, _)
\* the integer square root of x, known to lie in lo..hi
ISqrtIn(x, lo, hi) ==
    IF lo >= hi THEN lo
    ELSE LET mid == (lo + hi + 1) \div 2
         IN  IF mid * mid <= x THEN ISqrtIn(x, mid, hi) ELSE ISqrtIn(x, lo, mid - 1)

\* the cosine, in thousandths, of two vectors of inner product dot whose
\* squared norms multiply to nn; a zero vector has inner product 0 with
\* every vector
CosineOf(dot, nn) ==
    IF nn = 0 \/ dot = 0 THEN 0
    ELSE IF dot > 0 THEN ISqrtIn((1000000 * dot * dot) \div nn, 0, 1000)
    ELSE 0 - ISqrtIn((1000000 * dot * dot) \div nn, 0, 1000)

\* the cosine of the vectors of two hashed texts
CosineOfParts(p, u) == CosineOf(EmbedDot(p, u), EmbedDot(p, p) * EmbedDot(u, u))

\* 1 - cosine distance of the embeddings of two texts, in thousandths
Similarity(text, q) ==
    CosineOfParts(HashParts(EmbedParts(text)), HashParts(EmbedParts(q)))

\* the documents of the collection, each with its similarity to the query
Scored(docs, q) == {[doc |-> d, sim |-> Similarity(d.text, q)] : d \in docs}

\* the document collection.query puts first: the least distance, and among
\* equal distances the least id
NearestDoc(scored) ==
    CHOOSE s \in scored :
        \A e \in scored : s.sim > e.sim \/ (s.sim = e.sim /\ s.doc.id <= e.doc.id)

RECURSIVE NearestOf(_, _)
\* the n nearest of the scored documents, nearest first
NearestOf(scored, n) ==
    IF n <= 0 \/ scored = {} THEN <<>>
    ELSE << NearestDoc(scored) >> \o NearestOf(scored \ {NearestDoc(scored)}, n - 1)

\* ChromaMemoryBackend.query as search uses it: the n_results nearest documents
\* of the collection with their similarity, nearest first; collection.query
\* refuses n_results <= 0 and search turns the exception into no hits
NearestDocs(docs, q, n) == NearestOf(Scored(docs, q), n)

-----------------------------------------------------------------------------
(* MemoryUnifier.search. *)

\* score=0.95 of a fact hit, in thousandths
FACT_SCORE == 950

\* score=0.90 of a person hit
PERSON_SCORE == 900

\* score=0.60 of an event hit
EVENT_SCORE == 600

\* 0.85 * sim of a SemanticIndex hit
CHROMA_WEIGHT == 850

\* 0.15 * recency_score of a turn hit
TURN_WEIGHT == 150

\* recency_score = 1.0 / (1.0 + age_s / 1800.0)
TURN_DECAY_S == 1800

\* if age_s > 7200: continue
TURN_MAX_AGE_S == 7200

\* if len(q_norm) >= 8 and terms
TURN_MIN_QUERY_LEN == 8

\* if len(t) >= 3
MIN_TERM_LEN == 3

\* for t in terms[:8]
MAX_TERMS == 8

\* recent_turns(..., limit=60)
RECENT_LIMIT == 60

\* search_facts(t, limit=12)
FACT_LIMIT == 12

\* search_people(t, limit=8)
PEOPLE_LIMIT == 8

\* search_events(t, limit=8)
EVENT_LIMIT == 8

\* ttl_s=120 of a cached search result
TTL_SEARCH == 120

\* the characters of the model's strings in code point order
CodePoints ==
    <<" ", "\"", "%", "'", "*", ",">> \o <<"0","1","2","3","4","5","6","7","8","9">>
        \o <<":", "=", "?">> \o UpperChars \o <<"_">> \o LowerChars \o <<"{", "|", "}">>

Ord(c) == CHOOSE n \in DOMAIN CodePoints : CodePoints[n] = c

RECURSIVE StrLess(_, _)
\* a < b of two str (SQLite BINARY collation)
StrLess(a, b) ==
    IF b = <<>> THEN FALSE
    ELSE IF a = <<>> THEN TRUE
    ELSE IF Head(a) = Head(b) THEN StrLess(Tail(a), Tail(b))
    ELSE Ord(Head(a)) < Ord(Head(b))

RECURSIVE OrderByName(_)
\* ORDER BY name (name is UNIQUE)
OrderByName(rows) ==
    IF rows = <<>> THEN <<>>
    ELSE LET k == CHOOSE i \in 1..Len(rows) :
                      \A j \in 1..Len(rows) : j # i => StrLess(rows[i].name, rows[j].name)
         IN  << rows[k] >> \o OrderByName(Without(rows, k))

RECURSIVE OrderByDateDesc(_)
\* ORDER BY date DESC, equal dates in scan order
OrderByDateDesc(rows) ==
    IF rows = <<>> THEN <<>>
    ELSE LET k == CHOOSE i \in 1..Len(rows) :
                      /\ \A j \in 1..Len(rows) : ~ StrLess(rows[i].date, rows[j].date)
                      /\ \A j \in 1..(i - 1) : StrLess(rows[j].date, rows[i].date)
         IN  << rows[k] >> \o OrderByDateDesc(Without(rows, k))

\* SQLiteMemoryBackend.search_people
SearchPeople(q, limit) ==
    LET like == LikePattern(q)
        Hit(r) == LikeMatch(like, r.name) \/ LikeMatch(like, r.attributes_json)
    IN  Limit(OrderByName(SelectSeq(people, Hit)), limit)

\* SQLiteMemoryBackend.search_events
SearchEvents(q, limit) ==
    LET like == LikePattern(q)
        Hit(r) == LikeMatch(like, r.date) \/ LikeMatch(like, r.note)
    IN  Limit(OrderByDateDesc(SelectSeq(events, Hit)), limit)

\* SQLiteMemoryBackend.recent_turns; conversation_id None is "None"
RecentTurns(conversation_id, limit) ==
    LET Hit(r) == conversation_id = "None" \/ r.conversation_id = conversation_id
    IN  Limit(OrderByCreatedDesc(SelectSeq(turns, Hit)), limit)

RECURSIVE Dedup(_, _)
\* [t for t in terms if not (t in seen or seen.add(t))]
Dedup(xs, seen) ==
    IF xs = <<>> THEN <<>>
    ELSE IF Head(xs) \in seen THEN Dedup(Tail(xs), seen)
    ELSE << Head(xs) >> \o Dedup(Tail(xs), seen \cup {Head(xs)})

\* the terms search derives from q_norm
SearchTerms(q_norm) ==
    LET IsLong(t) == Len(t) >= MIN_TERM_LEN
        long == SelectSeq(SplitRuns(q_norm, "term", <<>>), IsLong)
        ai == IF Contains(q_norm, <<"a","i">>) THEN << <<"a","i">> >> ELSE <<>>
        id == IF Contains(q_norm, <<"i","d">>) THEN << <<"i","d">> >> ELSE <<>>
    IN  Dedup(long \o ai \o id, {})

RECURSIVE JoinBar(_)
\* '|'.join(terms)
JoinBar(terms) ==
    IF terms = <<>> THEN <<>>
    ELSE IF Len(terms) = 1 THEN Head(terms)
    ELSE Head(terms) \o <<"|">> \o JoinBar(Tail(terms))

\* cache_key = f"search:{conversation_id}:{'|'.join(terms) or q_norm}:{limit}"
SearchKey(q_norm, terms, conversation_id, limit) ==
    CacheKey("search", 0, IF JoinBar(terms) # <<>> THEN JoinBar(terms) ELSE q_norm,
             conversation_id, limit)

RECURSIVE RowsPerTerm(_, _)
\* the rows of one table found for each term in turn
RowsPerTerm(tbl, terms) ==
    IF terms = <<>> THEN <<>>
    ELSE (CASE tbl = "facts" -> SearchFacts(Head(terms), FACT_LIMIT)
            [] tbl = "people" -> SearchPeople(Head(terms), PEOPLE_LIMIT)
            [] tbl = "events" -> SearchEvents(Head(terms), EVENT_LIMIT))
         \o RowsPerTerm(tbl, Tail(terms))

\* fact_rows, people_rows, event_rows
SearchRows(tbl, q, terms) ==
    IF terms # <<>>
    THEN RowsPerTerm(tbl, SubSeq(terms, 1, IF Len(terms) < MAX_TERMS THEN Len(terms) ELSE MAX_TERMS))
    ELSE RowsPerTerm(tbl, << q >>)

\* the hits of the recent turns without the cap on their age
TurnHits_AnyAge(recent, q_norm, terms, t) ==
    LET Age(r) == IF t - r.created_at < 1 THEN 1 ELSE t - r.created_at
        Keep(r) == \E n \in 1..Len(terms) : Contains(Lower(r.content), terms[n])
        rows == IF Len(q_norm) >= TURN_MIN_QUERY_LEN /\ terms # <<>>
                THEN SelectSeq(recent, Keep) ELSE <<>>
    IN  [n \in 1..Len(rows) |->
            [id |-> rows[n].id, kind |-> "turn",
             text |-> rows[n].role \o <<":", " ">> \o rows[n].content,
             score |-> (TURN_WEIGHT * TURN_DECAY_S) \div (TURN_DECAY_S + Age(rows[n])),
             backend |-> "sqlite", role |-> ""]]

\* the hits of the recent turns
TurnHits(recent, q_norm, terms, t) ==
    LET Age(r) == IF t - r.created_at < 1 THEN 1 ELSE t - r.created_at
        Keep(r) == /\ \E n \in 1..Len(terms) : Contains(Lower(r.content), terms[n])
                   /\ Age(r) <= TURN_MAX_AGE_S
        rows == IF Len(q_norm) >= TURN_MIN_QUERY_LEN /\ terms # <<>>
                THEN SelectSeq(recent, Keep) ELSE <<>>
    IN  [n \in 1..Len(rows) |->
            [id |-> rows[n].id, kind |-> "turn",
             text |-> rows[n].role \o <<":", " ">> \o rows[n].content,
             score |-> (TURN_WEIGHT * TURN_DECAY_S) \div (TURN_DECAY_S + Age(rows[n])),
             backend |-> "sqlite", role |-> ""]]

\* search without its fact hits
FactHits_None(rows) == <<>>

FactHits(rows) ==
    [n \in 1..Len(rows) |->
        [id |-> rows[n].id, kind |-> "fact",
         text |-> FactText(rows[n].entity, rows[n].attribute, rows[n].value),
         score |-> FACT_SCORE, backend |-> "sqlite", role |-> ""]]

PersonHits(rows) ==
    [n \in 1..Len(rows) |->
        [id |-> rows[n].id, kind |-> "person",
         text |-> PersonText(rows[n].name, rows[n].attributes_json),
         score |-> PERSON_SCORE, backend |-> "sqlite", role |-> ""]]

EventHits(rows) ==
    [n \in 1..Len(rows) |->
        [id |-> rows[n].id, kind |-> "event", text |-> EventText(rows[n].date, rows[n].note),
         score |-> EVENT_SCORE, backend |-> "sqlite", role |-> ""]]

\* the characters of a metadata value, which the model keeps as a string
MetaText(m) ==
    CASE m = "" -> <<>>
      [] m = "fact" -> <<"f","a","c","t">>
      [] m = "person" -> <<"p","e","r","s","o","n">>
      [] m = "event" -> <<"e","v","e","n","t">>
      [] m = "note" -> <<"n","o","t","e">>
      [] m = "turn" -> <<"t","u","r","n">>
      [] m = "turns" -> <<"t","u","r","n","s">>
      [] m = "user" -> <<"u","s","e","r">>
      [] m = "assistant" -> <<"a","s","s","i","s","t","a","n","t">>

\* a filter of the semantic hits that only knows the kind "turn"
SkipsSemantic_ExactTurnOnly(doc) == doc.kind = "turn"

\* k == "turn" or k.startswith("turn") or r == "assistant", k and r being the
\* lower-cased kind and role of the metadata
SkipsSemantic(doc) ==
    LET k == Lower(MetaText(doc.kind))
        r == Lower(MetaText(doc.role))
    IN  \/ k = <<"t","u","r","n">>
        \/ (Len(k) >= 4 /\ SubSeq(k, 1, 4) = <<"t","u","r","n">>)
        \/ r = <<"a","s","s","i","s","t","a","n","t">>

\* the hits of the SemanticIndex: raw turns and assistant documents are
\* skipped, the score is 0.85 * max(0, similarity); the hit keeps the kind of
\* the metadata, and its role in its provenance
ChromaHits(chs) ==
    LET Keep(c) == ~ SkipsSemantic(c.doc)
        ds == SelectSeq(chs, Keep)
    IN  [n \in 1..Len(ds) |->
            [id |-> ds[n].doc.id, kind |-> ds[n].doc.kind, text |-> ds[n].doc.text,
             score |-> (CHROMA_WEIGHT * (IF ds[n].sim < 0 THEN 0 ELSE ds[n].sim)) \div 1000,
             backend |-> "chroma", role |-> ds[n].doc.role]]

RECURSIVE MergeById_LastOfEqual(_, _)
\* a merge that lets a hit of the same score take the place of the one kept
MergeById_LastOfEqual(hits, merged) ==
    IF hits = <<>> THEN merged
    ELSE LET h == Head(hits)
             at == {n \in 1..Len(merged) : merged[n].id = h.id}
         IN  IF at = {} THEN MergeById_LastOfEqual(Tail(hits), Append(merged, h))
             ELSE IF h.score >= merged[CHOOSE n \in at : TRUE].score
                  THEN MergeById_LastOfEqual(Tail(hits),
                                             [merged EXCEPT ![CHOOSE n \in at : TRUE] = h])
             ELSE MergeById_LastOfEqual(Tail(hits), merged)

RECURSIVE MergeById(_, _)
\* merged[h.id] = h when the id is new or h.score > prev.score; a dict keeps
\* the place of a key's first insertion
MergeById(hits, merged) ==
    IF hits = <<>> THEN merged
    ELSE LET h == Head(hits)
             at == {n \in 1..Len(merged) : merged[n].id = h.id}
         IN  IF at = {} THEN MergeById(Tail(hits), Append(merged, h))
             ELSE IF h.score > merged[SetMin(at)].score
                  THEN MergeById(Tail(hits), [merged EXCEPT ![SetMin(at)] = h])
             ELSE MergeById(Tail(hits), merged)

RECURSIVE SortedByScoreDesc(_)
\* sorted(..., key=score, reverse=True): stable, equal scores keep their order
SortedByScoreDesc(hs) ==
    IF hs = <<>> THEN <<>>
    ELSE LET k == CHOOSE i \in 1..Len(hs) :
                      /\ \A j \in 1..Len(hs) : hs[j].score <= hs[i].score
                      /\ \A j \in 1..(i - 1) : hs[j].score < hs[i].score
         IN  << hs[k] >> \o SortedByScoreDesc(Without(hs, k))

\* the slice that leaves the ranked list whole
SliceTo_Whole(xs, n) == xs

\* xs[:n]
SliceTo(xs, n) ==
    IF n >= 0 THEN SubSeq(xs, 1, IF n < Len(xs) THEN n ELSE Len(xs))
    ELSE SubSeq(xs, 1, IF Len(xs) + n > 0 THEN Len(xs) + n ELSE 0)

\* sorted(merged.values(), ...)[: int(limit)] without the slice
SortedHits(hits) == SortedByScoreDesc(MergeById(hits, <<>>))

\* hits, in the order search appends them: the recent turns, the facts, the
\* people, the events, the SemanticIndex coll
SourceHits(coll, q, conversation_id, limit) ==
    LET q_norm == Lower(q)
        terms == SearchTerms(q_norm)
    IN  TurnHits(RecentTurns(conversation_id, RECENT_LIMIT), q_norm, terms, now)
          \o FactHits(SearchRows("facts", q, terms))
          \o PersonHits(SearchRows("people", q, terms))
          \o EventHits(SearchRows("events", q, terms))
          \o ChromaHits(NearestDocs(coll, q, limit))

\* ranked, on the cache-miss path, over the SemanticIndex coll
Ranked(coll, q, conversation_id, limit) ==
    SliceTo(SortedHits(SourceHits(coll, q, conversation_id, limit)), limit)

\* what search finds for the stripped query q: its cache key, whether the
\* EphemeralCache answers (an entry that is a non-empty list), and the ranked
\* hits it returns
SearchOutcome(q, conversation_id, limit) ==
    LET key == SearchKey(Lower(q), SearchTerms(Lower(q)), conversation_id, limit)
        cached == CacheGet(diskcache, key, now)
        cache_hit == q # <<>> /\ \E e \in cached : e.value.hits # <<>>
    IN  [key |-> key,
         cache_hit |-> cache_hit,
         ranked |-> IF q = <<>> THEN <<>>
                    ELSE IF cache_hit THEN (CHOOSE e \in cached : TRUE).value.hits
                    ELSE Ranked(EnsuredIndex, q, conversation_id, limit)]

\* search returns what it found: a cache miss stores the ranked hits for 120 s
\* and appends a snapshot
SearchReturns(i, q_in, conversation_id, limit, found) ==
    LET q == Strip(q_in)
        miss == q # <<>> /\ ~ found.cache_hit
    IN  /\ ReadStart(i)
        /\ initialized' = TRUE
        /\ chroma' = EnsuredIndex
        /\ diskcache' = IF miss
                        THEN CacheSet(diskcache, found.key, [hits |-> found.ranked],
                                      TTL_SEARCH, now)
                        ELSE diskcache
        /\ snapshots' = IF miss
                        THEN Append(EnsuredSnapshots,
                                    [kind |-> "search", q |-> q,
                                     conversation_id |-> conversation_id,
                                     results |-> found.ranked])
                        ELSE EnsuredSnapshots
        /\ op' = [op EXCEPT ![i] = [kind |-> "search", q |-> q_in,
                      conversation_id |-> conversation_id, limit |-> limit,
                      cache_hit |-> found.cache_hit]]
        /\ result' = [result EXCEPT ![i] =
                         [status |-> "returned", id |-> 0, hits |-> found.ranked]]
        /\ pc' = [pc EXCEPT ![i] = "done"]
        /\ UNCHANGED <<brain, facts, people, events, turns, conversations, audit, write_lock,
                       sub, next_id, now>>

\* search, from "await self.initialize()" to its return
search(i, q_in, conversation_id, limit) ==
    SearchReturns(i, q_in, conversation_id, limit,
                  SearchOutcome(Strip(q_in), conversation_id, limit))

\* get_facts, from "await self.initialize()" to its return
get_facts(i, entity, attribute, limit, newest_first) ==
    /\ ReadStart(i)
    /\ initialize
    /\ op' = [op EXCEPT ![i] = [kind |-> "get_facts", entity |-> entity,
                  attribute |-> attribute, limit |-> limit,
                  newest_first |-> newest_first]]
    /\ result' = [result EXCEPT ![i] =
                     [status |-> "returned", id |-> 0,
                      rows |-> GetFacts(facts, entity, attribute, limit, newest_first)]]
    /\ pc' = [pc EXCEPT ![i] = "done"]
    /\ UNCHANGED <<brain, facts, people, events, turns, conversations, diskcache, audit,
                   write_lock, sub, next_id, now>>

\* get_latest_fact: get_facts with limit=1, newest first
get_latest_fact(i, entity, attribute) ==
    /\ ReadStart(i)
    /\ initialize
    /\ op' = [op EXCEPT ![i] = [kind |-> "get_latest_fact", entity |-> entity,
                  attribute |-> attribute]]
    /\ result' = [result EXCEPT ![i] =
                     [status |-> "returned", id |-> 0,
                      rows |-> GetLatestFact(facts, entity, attribute)]]
    /\ pc' = [pc EXCEPT ![i] = "done"]
    /\ UNCHANGED <<brain, facts, people, events, turns, conversations, diskcache, audit,
                   write_lock, sub, next_id, now>>

-----------------------------------------------------------------------------
(* core/brain.py: the text helpers of Brain.chat and Brain._extract_facts.  *)
(* A regular expression of the code is matched word by word: the utterances *)
(* are sanitized, so their words are separated by single spaces, and a      *)
(* literal word of a pattern has to be a whole word of the utterance.       *)

\* len(clean_message) <= 24 of a pure approval or denial
PURE_REPLY_MAX_LEN == 24

\* names[:6]
MAX_CHILD_NAMES == 6

\* limit=10 of the memory retrieval of chat
CHAT_SEARCH_LIMIT == 10

\* \w
IsWordChar(c) == IsAlpha(c) \/ c \in DigitChars \/ c = "_"

UpperCh(c) ==
    IF IsLower(c)
    THEN UpperChars[CHOOSE i \in DOMAIN LowerChars : LowerChars[i] = c]
    ELSE c

\* str.split()
Words(s) == SplitRuns(s, "word", <<>>)

RECURSIVE JoinSpace(_)
\* " ".join(words)
JoinSpace(ws) ==
    IF ws = <<>> THEN <<>>
    ELSE IF Len(ws) = 1 THEN Head(ws)
    ELSE Head(ws) \o <<" ">> \o JoinSpace(Tail(ws))

\* _sanitize_user_text: strip() and re.sub(r"\s+", " ", t).strip(); the test
\* tags, editor artifacts, pasted transcripts and banned directives it removes
\* are not part of the utterances of the model
sanitize_user_text(text) == JoinSpace(Words(text))

\* _is_memory_confirm
is_memory_confirm(msg) ==
    LET q == Lower(Strip(msg))
    IN  \/ q \in { <<"y","e","s">>, <<"y">>, <<"s","u","r","e">>, <<"o","k">>, <<"o","k","a","y">>, <<"r","e","m","e","m","b","e","r">>, <<"s","a","v","e">>,
                   <<"s","a","v","e"," ","i","t">>, <<"r","e","m","e","m","b","e","r"," ","t","h","a","t">> }
        \/ \E p \in { <<"y","e","s",","," ","r","e","m","e","m","b","e","r">>, <<"p","l","e","a","s","e"," ","r","e","m","e","m","b","e","r">>, <<"g","o"," ","a","h","e","a","d"," ","a","n","d"," ","s","a","v","e">>,
                      <<"s","t","o","r","e"," ","t","h","a","t">>, <<"r","e","m","e","m","b","e","r"," ","t","h","i","s">> } : Contains(q, p)

\* _is_memory_deny
is_memory_deny(msg) ==
    LET q == Lower(Strip(msg))
    IN  \/ q \in { <<"n","o">>, <<"n">>, <<"n","o","p","e">>, <<"d","o","n","'","t">>, <<"d","o"," ","n","o","t">>, <<"d","o","n","t">>, <<"d","o","n","'","t"," ","s","a","v","e">>,
                   <<"d","o"," ","n","o","t"," ","s","a","v","e">> }
        \/ \E p \in { <<"d","o","n","'","t"," ","r","e","m","e","m","b","e","r">>, <<"d","o"," ","n","o","t"," ","r","e","m","e","m","b","e","r">>, <<"p","l","e","a","s","e"," ","d","o","n","'","t"," ","s","a","v","e">>,
                      <<"n","o"," ","t","h","a","n","k","s">> } : Contains(q, p)

\* len(clean_message) <= 24 and "?" not in clean_message
IsPureReply(clean_message) ==
    Len(clean_message) <= PURE_REPLY_MAX_LEN /\ ~ Contains(clean_message, <<"?">>)

\* a word or "\w+" prefix at the start of s followed by a word boundary
StartsWithWord(s, w) ==
    /\ Len(s) >= Len(w)
    /\ SubSeq(s, 1, Len(w)) = w
    /\ (Len(s) = Len(w) \/ ~ IsWordChar(s[Len(w) + 1]))

\* is_question_like
is_question_like(clean_message) ==
    LET lower_q == Strip(Lower(clean_message))
    IN  \/ Contains(clean_message, <<"?">>)
        \/ \E w \in { <<"w","h","o">>, <<"w","h","a","t">>, <<"d","o"," ","y","o","u">>, <<"c","a","n"," ","y","o","u">>, <<"t","e","l","l"," ","m","e">>, <<"l","i","s","t">> } :
               StartsWithWord(lower_q, w)

\* the deterministic fast paths of chat: TRUE when chat answers from
\* get_facts / get_latest_fact and returns before the turn is ingested
TakesFastPath(clean_message) ==
    LET q == Strip(Lower(clean_message))
        Has(S) == \E t \in S : Contains(q, t)
        names == Has({ <<"n","a","m","e">>, <<"n","a","m","e","s">> })
    IN  /\ is_question_like(clean_message)
        /\ \/ Has({ <<"w","h","o"," ","d","o"," ","y","o","u"," ","k","n","o","w">>, <<"w","h","a","t"," ","d","o"," ","y","o","u"," ","k","n","o","w">> })
           \/ Has({ <<"s","o","n">>, <<"s","o","n","s">>, <<"d","a","u","g","h","t","e","r">>, <<"d","a","u","g","h","t","e","r","s">>, <<"k","i","d">>, <<"k","i","d","s">>,
                    <<"c","h","i","l","d">>, <<"c","h","i","l","d","r","e","n">> }) /\ names
           \/ Has({ <<"m","o","m">>, <<"m","o","t","h","e","r">>, <<"d","a","d">>, <<"f","a","t","h","e","r">>, <<"p","a","r","e","n","t","s">> }) /\ names
           \/ Has({ <<"p","e","t">>, <<"p","e","t","s">>, <<"d","o","g">>, <<"d","o","g","s">>, <<"c","a","t">>, <<"c","a","t","s">> }) /\ names
           \/ Has({ <<"w","i","f","e">>, <<"h","u","s","b","a","n","d">>, <<"s","p","o","u","s","e">> }) /\ names
           \/ Has({ <<"f","r","i","e","n","d">>, <<"f","r","i","e","n","d","s">> }) /\ names
           \/ Has({ <<"b","r","o","t","h","e","r">>, <<"s","i","s","t","e","r">>, <<"s","i","b","l","i","n","g">> }) /\ names

\* the prefix of s a capture group takes: the longest one of lo..hi characters
\* of the class that starts with a letter and, when a \b follows the group,
\* ends at a word boundary; <<>> when there is none
Capture(s, cls, lo, hi, boundary) ==
    LET Ok(n) == /\ \A k \in 1..n : InClass(cls, s[k])
                 /\ boundary => (IsWordChar(s[n]) # (n < Len(s) /\ IsWordChar(s[n + 1])))
        lens == {n \in lo..(IF hi < Len(s) THEN hi ELSE Len(s)) : Ok(n)}
    IN  IF s = <<>> \/ ~ IsAlpha(s[1]) \/ lens = {} THEN <<>>
        ELSE SubSeq(s, 1, SetMax(lens))

RECURSIVE PersonCapture(_)
RECURSIVE PersonMore(_, _)
\* ([A-Z][A-Za-z\-']+(?:\s+[A-Z][A-Za-z\-']+)*) under re.IGNORECASE
PersonCapture(s) == PersonMore(s, Capture(s, "person", 2, Len(s), FALSE))

\* a name after the name r, when a space and a further name follow it
PersonJoin(r, more) == IF more = <<>> THEN r ELSE r \o <<" ">> \o more

PersonMore(s, r) ==
    IF r = <<>> THEN <<>>
    ELSE PersonJoin(r, IF Len(s) > Len(r) /\ s[Len(r) + 1] = " "
                       THEN PersonCapture(SubSeq(s, Len(r) + 2, Len(s)))
                       ELSE <<>>)

\* the class and the length bounds of the capture group of a kind (hi = 0:
\* no upper bound), and whether a \b follows the group
CaptureClass(kind) ==
    CASE kind = "name" -> [cls |-> "name", lo |-> 2, hi |-> 41, boundary |-> TRUE]
      [] kind = "place" -> [cls |-> "place", lo |-> 3, hi |-> 61, boundary |-> TRUE]
      [] kind = "spouse" -> [cls |-> "spouse", lo |-> 2, hi |-> 41, boundary |-> TRUE]
      [] kind = "pet" -> [cls |-> "person", lo |-> 2, hi |-> 0, boundary |-> TRUE]

\* r when the capture group r of s ends at a word boundary
AtBoundary(s, r) ==
    IF r # <<>> /\ (IsWordChar(r[Len(r)]) # (Len(r) < Len(s) /\ IsWordChar(s[Len(r) + 1])))
    THEN r ELSE <<>>

\* [^\.\n]+
UpToDot(s, dots) == IF dots = {} THEN s ELSE SubSeq(s, 1, SetMin(dots) - 1)

\* what the capture group of a pattern takes from the rest s of the
\* utterance, before any strip()
RawCapture(kind, s, c) ==
    CASE kind \in {"name", "place", "spouse", "pet"} ->
           Capture(s, c.cls, c.lo, IF c.hi = 0 THEN Len(s) ELSE c.hi, c.boundary)
      [] kind = "person" -> PersonCapture(s)
      [] kind = "person_b" -> AtBoundary(s, PersonCapture(s))
      [] kind = "tail" -> s
      [] kind = "list" -> UpToDot(s, {n \in 1..Len(s) : s[n] = "." \/ s[n] = "\n"})

\* m.group(1).strip() where the code strips the group
StripGroup(kind, group) ==
    IF kind \in {"place", "person", "person_b", "pet"} THEN Strip(group) ELSE group

\* the value the code takes from the capture group
CaptureOf(kind, s) ==
    StripGroup(kind,
               RawCapture(kind, s,
                          IF kind \in {"name", "place", "spouse", "pet"}
                          THEN CaptureClass(kind) ELSE <<>>))

\* a word of the utterance matches a literal word of a pattern; "#" is \d+
WordMatches(w, lit) ==
    IF lit = <<"#">> THEN \A k \in 1..Len(w) : w[k] \in DigitChars
    ELSE Lower(w) = lit

\* the words ws[i..] begin with the literal words of alt
AltMatches(ws, i, alt) ==
    /\ i + Len(alt) - 1 <= Len(ws)
    /\ \A k \in 1..Len(alt) : WordMatches(ws[i + k - 1], alt[k])

RECURSIVE MatchEnds(_, _, _)
RECURSIVE MatchAlts(_, _, _, _)
\* where the literal part of a pattern can end when it starts at word i: the
\* index of the word after it, for every way to match, in the order the
\* regular expression tries them. A pattern is a sequence of slots; a slot has
\* alternatives (sequences of literal words) and may be optional.
MatchEnds(ws, i, slots) ==
    IF slots = <<>> THEN << i >> ELSE MatchAlts(ws, i, slots, 1)

MatchAlts(ws, i, slots, k) ==
    IF k > Len(Head(slots).alts)
    THEN (IF Head(slots).opt THEN MatchEnds(ws, i, Tail(slots)) ELSE <<>>)
    ELSE (IF AltMatches(ws, i, Head(slots).alts[k])
          THEN MatchEnds(ws, i + Len(Head(slots).alts[k]), Tail(slots))
          ELSE <<>>)
         \o MatchAlts(ws, i, slots, k + 1)

NoMatch == [at |-> 0, end |-> 0, value |-> <<>>]

\* what the capture group takes after each end of the literal part
Captured(ws, kind, ends) ==
    [k \in DOMAIN ends |->
        [end |-> ends[k],
         value |-> IF ends[k] <= Len(ws)
                   THEN CaptureOf(kind, JoinSpace(SubSeq(ws, ends[k], Len(ws))))
                   ELSE <<>>]]

\* the ways to match at one place whose capture group takes something
Taking(captured) == SelectSeq(captured, LAMBDA c : c.value # <<>>)

RECURSIVE SearchFrom(_, _, _, _)
RECURSIVE SearchAt(_, _, _, _, _)
\* re.search(pattern, msg): the leftmost match, and at one place the first way
\* to match whose capture group takes something
SearchFrom(ws, i, slots, kind) ==
    IF i > Len(ws) THEN NoMatch
    ELSE SearchAt(ws, i, slots, kind, Taking(Captured(ws, kind, MatchEnds(ws, i, slots))))

SearchAt(ws, i, slots, kind, taking) ==
    IF taking # <<>>
    THEN [at |-> i, end |-> Head(taking).end, value |-> Head(taking).value]
    ELSE SearchFrom(ws, i + 1, slots, kind)

ReSearch(ws, slots, kind) == SearchFrom(ws, 1, slots, kind)

-----------------------------------------------------------------------------
(* core/brain.py: Brain._extract_facts.                                     *)

\* a slot of a pattern with one or more alternatives
Slot(alts) == [alts |-> alts, opt |-> FALSE]

\* an optional slot: (?:...)?
OptSlot(alts) == [alts |-> alts, opt |-> TRUE]

\* a memory call the chat makes, with the arguments of its kind
NoCall ==
    [kind |-> "none", entity |-> <<>>, attribute |-> <<>>, value |-> <<>>, confidence |-> 0,
     name |-> <<>>, attributes |-> <<>>, role |-> <<>>, content |-> <<>>, q |-> <<>>]

AddFactCall(entity, attribute, value, confidence) ==
    [NoCall EXCEPT !.kind = "add_fact", !.entity = entity, !.attribute = attribute,
                   !.value = value, !.confidence = confidence]

UpsertPersonCall(name, attributes) ==
    [NoCall EXCEPT !.kind = "upsert_person", !.name = name, !.attributes = attributes]

IngestTurnCall(role, content) ==
    [NoCall EXCEPT !.kind = "ingest_turn", !.role = role, !.content = content]

SearchCall(q) == [NoCall EXCEPT !.kind = "search", !.q = q]

\* _PendingFact(entity="user", ...); confidence in hundredths
PendingFact(attribute, value, confidence, blurb) ==
    [entity |-> <<"u","s","e","r">>, attribute |-> attribute, value |-> value,
     confidence |-> confidence, blurb |-> blurb]

\* add_fact(entity=pf.entity, attribute=pf.attribute, value=pf.value,
\* confidence=pf.confidence)
FlushCall(pf) == AddFactCall(pf.entity, pf.attribute, pf.value, pf.confidence)

RECURSIVE FlushCalls(_)
\* for pf in pending: await self._memory.add_fact(...)
FlushCalls(pending) ==
    IF pending = <<>> THEN <<>>
    ELSE << FlushCall(Head(pending)) >> \o FlushCalls(Tail(pending))

\* \bmy\s+name\s+is\s+(...)\b
NamePattern == << Slot(<< << <<"m","y">> >> >>), Slot(<< << <<"n","a","m","e">> >> >>), Slot(<< << <<"i","s">> >> >>) >>

\* \bi\s+live\s+in\s+(...)\b
LocationPattern == << Slot(<< << <<"i">> >> >>), Slot(<< << <<"l","i","v","e">> >> >>), Slot(<< << <<"i","n">> >> >>) >>

\* \bmy\s+(wife|husband|spouse)\b(?:\s+name\s+is|\s+is|\s+named)?\s+(...)\b
SpousePattern ==
    << Slot(<< << <<"m","y">> >> >>),
       Slot(<< << <<"w","i","f","e">> >>, << <<"h","u","s","b","a","n","d">> >>, << <<"s","p","o","u","s","e">> >> >>),
       OptSlot(<< << <<"n","a","m","e">>, <<"i","s">> >>, << <<"i","s">> >>, << <<"n","a","m","e","d">> >> >>) >>

\* (sons|son|daughters|daughter|kids|children)
ChildWords ==
    << <<"s","o","n","s">>, <<"s","o","n">>, <<"d","a","u","g","h","t","e","r","s">>, <<"d","a","u","g","h","t","e","r">>, <<"k","i","d","s">>, <<"c","h","i","l","d","r","e","n">> >>

\* \b(?:i\s+have|my)\s+(?:two\s+|three\s+|four\s+|\d+\s+)?(sons|...)\b
\* (?:\s+(?:named|are|:))?\s+(.+)$
KidsPattern ==
    << Slot(<< << <<"i">>, <<"h","a","v","e">> >>, << <<"m","y">> >> >>),
       OptSlot(<< << <<"t","w","o">> >>, << <<"t","h","r","e","e">> >>, << <<"f","o","u","r">> >>, << <<"#">> >> >>),
       Slot([k \in DOMAIN ChildWords |-> << ChildWords[k] >>]),
       OptSlot(<< << <<"n","a","m","e","d">> >>, << <<"a","r","e">> >>, << <<":">> >> >>) >>

\* \btheir\s+names?\s+(?:are|is)\s+(.+)$
TheirNamesPattern ==
    << Slot(<< << <<"t","h","e","i","r">> >> >>),
       Slot(<< << <<"n","a","m","e","s">> >>, << <<"n","a","m","e">> >> >>),
       Slot(<< << <<"a","r","e">> >>, << <<"i","s">> >> >>) >>

\* upsert_person and add_fact of "my name is ...", add_fact of "i live in ..."
IdentityCalls(m, m2) ==
    (IF m.at = 0 THEN <<>>
     ELSE << UpsertPersonCall(m.value, << << <<"r","e","l","a","t","i","o","n">>, <<"u","s","e","r">> >> >>),
             AddFactCall(<<"u","s","e","r">>, <<"n","a","m","e">>, m.value, 90) >>)
    \o (IF m2.at = 0 THEN <<>>
        ELSE << AddFactCall(<<"u","s","e","r">>, <<"l","o","c","a","t","i","o","n">>, m2.value, 75) >>)

\* the stable identity facts, which _extract_facts writes first
ExtractIdentity(msg) ==
    IdentityCalls(ReSearch(Words(msg), NamePattern, "name"),
                  ReSearch(Words(msg), LocationPattern, "place"))

\* the staged fact of the match m_spouse: who = m_spouse.group(1).lower()
SpouseFact(ws, m_spouse) ==
    IF m_spouse.at = 0 THEN <<>>
    ELSE << PendingFact(<<"s","p","o","u","s","e">>, m_spouse.value, 85,
                Concat(<< <<"Y","o","u","r"," ">>, Lower(ws[m_spouse.at + 1]), <<"'","s"," ","n","a","m","e"," ","i","s"," ">>,
                          m_spouse.value, <<".">> >>)) >>

\* the staged fact of "my wife is ..."
ExtractSpouse(msg) == SpouseFact(Words(msg), ReSearch(Words(msg), SpousePattern, "spouse"))

RECURSIVE SplitList(_, _, _, _, _)
\* re.split(r"\s*(?:,|\band\b|&|\+)\s*", tail), the pieces not yet stripped:
\* seps are the separator characters, fold tells whether "and" is matched
\* under re.IGNORECASE, prev is the character before s, cur the piece being read
SplitList(s, seps, fold, prev, cur) ==
    LET conj == <<"a","n","d">>
        w == IF Len(s) >= 3 THEN SubSeq(s, 1, 3) ELSE <<>>
        IsAnd == /\ (IF fold THEN Lower(w) ELSE w) = conj
                 /\ ~ IsWordChar(prev)
                 /\ (Len(s) = 3 \/ ~ IsWordChar(s[4]))
    IN  IF s = <<>> THEN << cur >>
        ELSE IF Head(s) \in seps THEN << cur >> \o SplitList(Tail(s), seps, fold, Head(s), <<>>)
        ELSE IF IsAnd THEN << cur >> \o SplitList(SubSeq(s, 4, Len(s)), seps, fold, "d", <<>>)
        ELSE SplitList(Tail(s), seps, fold, Head(s), Append(cur, Head(s)))

\* str.strip(chars)
StripChars(s, chars) ==
    LET keep == {i \in 1..Len(s) : s[i] \notin chars}
    IN  IF keep = {} THEN <<>> ELSE SubSeq(s, SetMin(keep), SetMax(keep))

\* re.sub(r"[.?!]+$", "", tail)
DropEndMarks(s) ==
    LET keep == {i \in 1..Len(s) : s[i] \notin {".", "?", "!"}}
    IN  IF keep = {} THEN <<>> ELSE SubSeq(s, 1, SetMax(keep))

\* re.fullmatch(r"[A-Za-z][A-Za-z0-9'_-]{1,40}", n)
IsChildName(n) == n # <<>> /\ Capture(n, "spouse", 2, 41, FALSE) = n

\* [p.strip() for p in parts]
StripAll(parts) == [k \in DOMAIN parts |-> Strip(parts[k])]

\* xs[:n]
FirstN(xs, n) == SubSeq(xs, 1, IF Len(xs) < n THEN Len(xs) ELSE n)

\* names[:6] of the tail of a children sentence
ChildNames(tail) ==
    FirstN(SelectSeq(StripAll(SplitList(Strip(DropEndMarks(Strip(tail))),
                                        {",", "&", "+"}, FALSE, " ", <<>>)),
                     IsChildName),
           MAX_CHILD_NAMES)

\* the staged facts of the children named names: a child per name, and the
\* children_type of sons and daughters
ChildFacts(rel, names) ==
    IF names = <<>> THEN <<>>
    ELSE [k \in DOMAIN names |->
             PendingFact(<<"c","h","i","l","d">>, names[k], 80,
                 Concat(<< <<"Y","o","u"," ","h","a","v","e"," ","a"," ","c","h","i","l","d"," ","n","a","m","e","d"," ">>, names[k], <<".">> >>))]
         \o (IF rel \in { <<"s","o","n","s">>, <<"s","o","n">> }
             THEN << PendingFact(<<"c","h","i","l","d","r","e","n","_","t","y","p","e">>, <<"s","o","n","s">>, 70,
                         <<"Y","o","u"," ","m","e","n","t","i","o","n","e","d"," ","y","o","u","r"," ","c","h","i","l","d","r","e","n"," ","a","r","e"," ","s","o","n","s",".">>) >>
             ELSE IF rel \in { <<"d","a","u","g","h","t","e","r","s">>, <<"d","a","u","g","h","t","e","r">> }
             THEN << PendingFact(<<"c","h","i","l","d","r","e","n","_","t","y","p","e">>, <<"d","a","u","g","h","t","e","r","s">>, 70,
                         <<"Y","o","u"," ","m","e","n","t","i","o","n","e","d"," ","y","o","u","r"," ","c","h","i","l","d","r","e","n"," ","a","r","e"," ","d","a","u","g","h","t","e","r","s",".">>) >>
             ELSE <<>>)

\* a word of ChildWords stands at place p of the lowercased message s,
\* between word boundaries
ChildWordAt(s, p, w) ==
    /\ p + Len(w) - 1 <= Len(s)
    /\ SubSeq(s, p, p + Len(w) - 1) = w
    /\ (p = 1 \/ ~ IsWordChar(s[p - 1]))
    /\ (p + Len(w) - 1 = Len(s) \/ ~ IsWordChar(s[p + Len(w)]))

\* the word of ChildWords at the leftmost of the places found
FirstChildWord(s, found) ==
    IF found = {} THEN <<>>
    ELSE ChildWords[CHOOSE k \in DOMAIN ChildWords : ChildWordAt(s, SetMin(found), ChildWords[k])]

\* re.search(r"\b(sons|son|daughters|daughter|kids|children)\b", msg): the
\* word found (lowercased), or <<>>
ChildWordOf(s) ==
    FirstChildWord(s, {p \in 1..Len(s) : \E k \in DOMAIN ChildWords : ChildWordAt(s, p, ChildWords[k])})

ChildWordIn(msg) == ChildWordOf(Lower(msg))

\* m_kids.group(1).lower(): the first word of the match that is a ChildWords
\* word
KidsRel(ws, m_kids) ==
    Lower(ws[CHOOSE k \in m_kids.at..(m_kids.end - 1) :
                 /\ \E j \in DOMAIN ChildWords : Lower(ws[k]) = ChildWords[j]
                 /\ \A l \in m_kids.at..(k - 1) :
                        \A j \in DOMAIN ChildWords : Lower(ws[l]) # ChildWords[j]])

\* the staged facts of "my kids are A and B"
KidsFacts(ws, m_kids) ==
    IF m_kids.at = 0 THEN <<>> ELSE ChildFacts(KidsRel(ws, m_kids), ChildNames(m_kids.value))

\* the staged facts of a children word and "their names are A and B"
TheirNamesFacts(rel, names_m) ==
    IF rel # <<>> /\ names_m.at # 0 THEN ChildFacts(rel, ChildNames(names_m.value)) ELSE <<>>

\* the second form is read when the first one gave no names
FirstOr(first, second) == IF first # <<>> THEN first ELSE second

\* the staged facts of the children
ExtractChildren(msg) ==
    FirstOr(KidsFacts(Words(msg), ReSearch(Words(msg), KidsPattern, "tail")),
            TheirNamesFacts(ChildWordIn(msg), ReSearch(Words(msg), TheirNamesPattern, "tail")))

\* the list "pending" of _extract_facts: the family facts that need approval
ExtractPending(msg) == ExtractSpouse(msg) \o ExtractChildren(msg)

\* the queue after "setdefault(conversation_id, []).extend(pending)" that
\* drops what was staged before
StagedQueue_Replace(old, pending) == pending

\* self._pending_memory.setdefault(conversation_id, []).extend(pending)
StagedQueue(old, pending) == old \o pending

\* str.capitalize()
Capitalize(w) ==
    IF w = <<>> THEN <<>> ELSE << UpperCh(Head(w)) >> \o Lower(Tail(w))

\* " ".join([w.capitalize() for w in p.split() if w])
TitleCase(ws) == JoinSpace([k \in DOMAIN ws |-> Capitalize(ws[k])])

\* re.sub(r"[^A-Za-z\-'\s]", "", p).strip(), title-cased when at least 2 long
NameOf(kept) == IF Len(kept) < 2 THEN <<>> ELSE TitleCase(Words(kept))

\* one part of _split_name_list: strip(" .;:!\n\t"), drop what is not a
\* letter, "-", "'" or whitespace, title-case; <<>> for a part that is dropped
NamePart(part) ==
    NameOf(Strip(SelectSeq(StripChars(part, {" ", ".", ";", ":", "!", "\n", "\t"}),
                           LAMBDA c : InClass("person", c) \/ c \in Whitespace)))

RECURSIVE DedupNames(_, _)
\* the de-dupe of _split_name_list: dropped parts and names seen before,
\* compared in lower case, are left out
DedupNames(names, seen) ==
    IF names = <<>> THEN <<>>
    ELSE IF Head(names) = <<>> \/ Lower(Head(names)) \in seen
         THEN DedupNames(Tail(names), seen)
    ELSE << Head(names) >> \o DedupNames(Tail(names), seen \cup {Lower(Head(names))})

\* the names of the parts
NameParts(parts) == [k \in DOMAIN parts |-> NamePart(parts[k])]

\* _split_name_list
split_name_list(text) ==
    IF text = <<>> THEN <<>>
    ELSE DedupNames(NameParts(SplitList(Strip(text), {",", "&", "|"}, TRUE, " ", <<>>)), {})

\* _pet_value
pet_value(name, species) ==
    LET s == Lower(Strip(species))
        n == Strip(name)
    IN  IF s = <<>> THEN n ELSE Concat(<< n, <<"|">>, s >>)

My == Slot(<< << <<"m","y">> >> >>)

IHaveA == << Slot(<< << <<"i">> >> >>), Slot(<< << <<"h","a","v","e">> >> >>), Slot(<< << <<"a">> >> >>) >>

IsOrEq == Slot(<< << <<"i","s">> >>, << <<"=">> >> >>)

AreOrEq == Slot(<< << <<"a","r","e">> >>, << <<"=">> >> >>)

NameIs == << Slot(<< << <<"n","a","m","e">> >> >>), Slot(<< << <<"i","s">> >> >>) >>

\* parent_patterns, list_patterns, singular_patterns and pet_patterns in the
\* order the code tries them: the literal words, the capture group, the
\* attribute written, the confidence in hundredths, and the species of a pet.
\* The apostrophe of "mom's" is the ASCII one.
DirectPatterns ==
    << [slots |-> << My, Slot(<< << <<"m","o","m">> >> >>), IsOrEq >>, kind |-> "person",
        attribute |-> <<"m","o","t","h","e","r">>, confidence |-> 90, species |-> <<>>],
       [slots |-> << My, Slot(<< << <<"m","o","t","h","e","r">> >> >>), IsOrEq >>, kind |-> "person",
        attribute |-> <<"m","o","t","h","e","r">>, confidence |-> 90, species |-> <<>>],
       [slots |-> << My, Slot(<< << <<"d","a","d">> >> >>), IsOrEq >>, kind |-> "person",
        attribute |-> <<"f","a","t","h","e","r">>, confidence |-> 90, species |-> <<>>],
       [slots |-> << My, Slot(<< << <<"f","a","t","h","e","r">> >> >>), IsOrEq >>, kind |-> "person",
        attribute |-> <<"f","a","t","h","e","r">>, confidence |-> 90, species |-> <<>>],
       [slots |-> << My, Slot(<< << <<"m","o","m","'","s">> >> >>) >> \o NameIs, kind |-> "person",
        attribute |-> <<"m","o","t","h","e","r">>, confidence |-> 90, species |-> <<>>],
       [slots |-> << My, Slot(<< << <<"m","o","t","h","e","r","'","s">> >> >>) >> \o NameIs, kind |-> "person",
        attribute |-> <<"m","o","t","h","e","r">>, confidence |-> 90, species |-> <<>>],
       [slots |-> << My, Slot(<< << <<"d","a","d","'","s">> >> >>) >> \o NameIs, kind |-> "person",
        attribute |-> <<"f","a","t","h","e","r">>, confidence |-> 90, species |-> <<>>],
       [slots |-> << My, Slot(<< << <<"f","a","t","h","e","r","'","s">> >> >>) >> \o NameIs, kind |-> "person",
        attribute |-> <<"f","a","t","h","e","r">>, confidence |-> 90, species |-> <<>>],
       [slots |-> IHaveA \o << Slot(<< << <<"m","o","m">>, <<"a","n","d">>, <<"h","e","r">> >> >>) >> \o NameIs,
        kind |-> "person", attribute |-> <<"m","o","t","h","e","r">>, confidence |-> 90, species |-> <<>>],
       [slots |-> IHaveA \o << Slot(<< << <<"d","a","d">>, <<"a","n","d">>, <<"h","i","s">> >> >>) >> \o NameIs,
        kind |-> "person", attribute |-> <<"f","a","t","h","e","r">>, confidence |-> 90, species |-> <<>>],
       [slots |-> << My, Slot(<< << <<"c","o","u","s","i","n","s">> >>, << <<"c","o","u","s","i","n">> >> >>), AreOrEq >>,
        kind |-> "list", attribute |-> <<"c","o","u","s","i","n">>, confidence |-> 85, species |-> <<>>],
       [slots |-> << My, Slot(<< << <<"f","r","i","e","n","d","s">> >>, << <<"f","r","i","e","n","d">> >> >>), AreOrEq >>,
        kind |-> "list", attribute |-> <<"f","r","i","e","n","d">>, confidence |-> 85, species |-> <<>>],
       [slots |-> << My, Slot(<< << <<"s","i","b","l","i","n","g","s">> >>, << <<"s","i","b","l","i","n","g">> >> >>), AreOrEq >>,
        kind |-> "list", attribute |-> <<"s","i","b","l","i","n","g">>, confidence |-> 85, species |-> <<>>],
       [slots |-> << My, Slot(<< << <<"b","r","o","t","h","e","r","s">> >>, << <<"b","r","o","t","h","e","r">> >> >>), AreOrEq >>,
        kind |-> "list", attribute |-> <<"s","i","b","l","i","n","g">>, confidence |-> 85, species |-> <<>>],
       [slots |-> << My, Slot(<< << <<"s","i","s","t","e","r","s">> >>, << <<"s","i","s","t","e","r">> >> >>), AreOrEq >>,
        kind |-> "list", attribute |-> <<"s","i","b","l","i","n","g">>, confidence |-> 85, species |-> <<>>],
       [slots |-> << My, Slot(<< << <<"c","o","u","s","i","n">> >> >>) >>, kind |-> "person_b",
        attribute |-> <<"c","o","u","s","i","n">>, confidence |-> 85, species |-> <<>>],
       [slots |-> << My, Slot(<< << <<"f","r","i","e","n","d">> >> >>) >>, kind |-> "person_b",
        attribute |-> <<"f","r","i","e","n","d">>, confidence |-> 85, species |-> <<>>],
       [slots |-> << My, Slot(<< << <<"b","r","o","t","h","e","r">> >> >>) >>, kind |-> "person_b",
        attribute |-> <<"s","i","b","l","i","n","g">>, confidence |-> 85, species |-> <<>>],
       [slots |-> << My, Slot(<< << <<"s","i","s","t","e","r">> >> >>) >>, kind |-> "person_b",
        attribute |-> <<"s","i","b","l","i","n","g">>, confidence |-> 85, species |-> <<>>],
       [slots |-> IHaveA \o << Slot(<< << <<"b","r","o","t","h","e","r">> >> >>),
                               Slot(<< << <<"n","a","m","e","d">> >>, << <<"n","a","m","e">>, <<"i","s">> >>, << <<"i","s">> >> >>) >>,
        kind |-> "person_b", attribute |-> <<"s","i","b","l","i","n","g">>, confidence |-> 85, species |-> <<>>],
       [slots |-> IHaveA \o << Slot(<< << <<"s","i","s","t","e","r">> >> >>),
                               Slot(<< << <<"n","a","m","e","d">> >>, << <<"n","a","m","e">>, <<"i","s">> >>, << <<"i","s">> >> >>) >>,
        kind |-> "person_b", attribute |-> <<"s","i","b","l","i","n","g">>, confidence |-> 85, species |-> <<>>],
       [slots |-> << My, Slot(<< << <<"d","o","g">> >> >>), Slot(<< << <<"i","s">> >>, << <<"n","a","m","e","d">> >> >>) >>,
        kind |-> "pet", attribute |-> <<"p","e","t">>, confidence |-> 90, species |-> <<"d","o","g">>],
       [slots |-> IHaveA \o << Slot(<< << <<"d","o","g">> >> >>), Slot(<< << <<"n","a","m","e","d">> >> >>) >>,
        kind |-> "pet", attribute |-> <<"p","e","t">>, confidence |-> 90, species |-> <<"d","o","g">>],
       [slots |-> << My, Slot(<< << <<"c","a","t">> >> >>), Slot(<< << <<"i","s">> >>, << <<"n","a","m","e","d">> >> >>) >>,
        kind |-> "pet", attribute |-> <<"p","e","t">>, confidence |-> 90, species |-> <<"c","a","t">>],
       [slots |-> IHaveA \o << Slot(<< << <<"c","a","t">> >> >>), Slot(<< << <<"n","a","m","e","d">> >> >>) >>,
        kind |-> "pet", attribute |-> <<"p","e","t">>, confidence |-> 90, species |-> <<"c","a","t">>] >>

\* add_fact(entity="user", attribute=attr, value=n, ...) for n in names
AddFactCalls(attribute, names, confidence) ==
    [k \in DOMAIN names |-> AddFactCall(<<"u","s","e","r">>, attribute, names[k], confidence)]

\* the add_fact calls of the match mm of a pattern of DirectPatterns
DirectCallsOf(p, mm) ==
    IF mm.at = 0 THEN <<>>
    ELSE IF p.kind = "list"
         THEN AddFactCalls(p.attribute, split_name_list(mm.value), p.confidence)
    ELSE AddFactCalls(p.attribute,
                      << IF p.kind = "pet" THEN pet_value(mm.value, p.species) ELSE mm.value >>,
                      p.confidence)

\* the add_fact calls one pattern of DirectPatterns makes
DirectCalls(msg, p) == DirectCallsOf(p, ReSearch(Words(msg), p.slots, p.kind))

RECURSIVE ExtractDirectFrom(_, _)
ExtractDirectFrom(msg, k) ==
    IF k > Len(DirectPatterns) THEN <<>>
    ELSE DirectCalls(msg, DirectPatterns[k]) \o ExtractDirectFrom(msg, k + 1)

\* the relationship and pet facts _extract_facts writes without asking
ExtractDirect(msg) == ExtractDirectFrom(msg, 1)

-----------------------------------------------------------------------------
(* core/brain.py: Brain.chat. One chat runs at a time; it makes its memory  *)
(* calls one after the other and waits for each. The tool router, the       *)
(* planner and the prompt do not touch the memory and are left out; the     *)
(* text of the model's reply is an input.                                   *)

\* a test of the save mode that leaves "ask" out
AsksFirst_NotAsk == memory_save_mode \in {"confirm", "approval"}

\* self._memory_save_mode in {"ask", "confirm", "approval"}
AsksFirst == memory_save_mode \in {"ask", "confirm", "approval"}

\* the acknowledgement of a pure approval
CONFIRM_ACK == <<"G","o","t"," ","i","t","."," ","I","'","l","l"," ","r","e","m","e","m","b","e","r"," ","t","h","a","t"," ","f","o","r"," ","f","u","t","u","r","e"," ","c","h","a","t","s",".">>

\* the acknowledgement of a pure denial
DENY_ACK == <<"U","n","d","e","r","s","t","o","o","d","."," ","I"," ","w","o","n","'","t"," ","s","a","v","e"," ","t","h","a","t",".">>

\* the memory approval prompt
APPROVAL_PROMPT ==
    <<"W","o","u","l","d"," ","y","o","u"," ","l","i","k","e"," ","m","e"," ","t","o"," ","r","e","m","e","m","b","e","r"," ","t","h","a","t"," ","f","o","r"," ","f","u","t","u","r","e"," ","c","h","a","t","s","?"," ","R","e","p","l","y"," ","'","y","e","s","'"," ","o","r"," ","'","n","o","'",".">>

\* what the language model answers
Replies == { <<"o","k">> }

\* the text stored as the assistant turn
ReplyText(assistant, ask_to_confirm) ==
    IF ask_to_confirm /\ AsksFirst
    THEN Strip(Concat(<< assistant, <<"\n", "\n">>, APPROVAL_PROMPT >>))
    ELSE assistant

\* the query of the memory retrieval: "user" for a message with a family term
SearchQuery(clean_message) ==
    IF \E t \in { <<"f","a","m","i","l","y">>, <<"w","i","f","e">>, <<"s","p","o","u","s","e">>, <<"h","u","s","b","a","n","d">>, <<"s","o","n">>, <<"s","o","n","s">>,
                  <<"d","a","u","g","h","t","e","r">>, <<"c","h","i","l","d","r","e","n">>, <<"k","i","d","s">> } : Contains(Lower(clean_message), t)
    THEN <<"u","s","e","r">>
    ELSE clean_message

\* no chat has been made
IdleChat ==
    [pc |-> "idle", phase |-> "none", conversation_id |-> "none", message |-> <<>>,
     queue0 |-> <<>>, passed |-> <<>>, wrote |-> <<>>, todo |-> <<>>, made |-> 0,
     ask_to_confirm |-> FALSE, outcome |-> "none"]

-----------------------------------------------------------------------------
(* core/tool_router.py: ToolRouter.execute, one coroutine at a time.       *)
(* None is the empty set and a value v is {v}; a text is a sequence of its *)
(* parts.                                                                  *)

\* retries of the calls that are made: -1 .. MaxRetries
MaxRetries == 2

\* ToolRouter.execute is called at most this often
MaxRouterCalls == 2

\* self._tools: two of the tools Brain.__init__ registers
Tools == {"code.read", "memory.rebuild_index"}

\* the names a ToolCall carries: weather.current is a plugin tool, not
\* registered while network tools are off
ToolNames == Tools \cup {"weather.current"}

RetryValues == (0 - 1) .. MaxRetries

\* what a capability raises, and what asyncio.wait_for raises at the timeout
ToolFailures == {"RuntimeError", "TimeoutError"}

\* isinstance(e, Exception), for the exception classes of the model
IsException_NotTimeout(exc) == exc \in {"RuntimeError", "KeyError"}

IsException(exc) == exc \in {"RuntimeError", "KeyError", "TimeoutError"}

\* str(e)
StrOf(exc) ==
    CASE exc = "RuntimeError" -> <<"boom">>
      [] exc = "TimeoutError" -> <<"">>
      [] exc = "KeyError" -> <<"'", router.name, "'">>

\* the dataclass ToolResult
ToolResult(name, ok, res, error) ==
    [name |-> name, ok |-> ok, result |-> res, error |-> error]

\* call.name in self._tools
Registered_Any(name) == TRUE

Registered(name) == name \in Tools

\* range(retries + 1) has this many elements
Attempts_OneMore(retries) == IF retries + 2 > 0 THEN retries + 2 ELSE 0

Attempts(retries) == IF retries + 1 > 0 THEN retries + 1 ELSE 0

\* no execute has been called
IdleRouter ==
    [pc |-> "idle", calls |-> 0, name |-> "", retries |-> 0, attempt |-> 0,
     invoked |-> 0, outcomes |-> <<>>, slept |-> <<>>, last_err |-> {},
     result |-> {}]

\* the variables ToolRouter.execute leaves alone
beside_router == <<boot, registry, loop, memory_save_mode, pending_memory, chat, stores, write_lock,
                   initialized, pc, op, sub, result, next_id, now>>

\* the state of the router once execute(name, retries) has run up to its loop
Called(name, retries) ==
    IF ~ Registered(name)
    THEN [IdleRouter EXCEPT
             !.pc = "done", !.calls = router.calls + 1, !.name = name,
             !.retries = retries,
             !.result = {ToolResult(name, FALSE, {},
                                    {<<"Unknown tool: ", name>>})}]
    ELSE [IdleRouter EXCEPT
             !.pc = "loop", !.calls = router.calls + 1, !.name = name,
             !.retries = retries]

\* the ToolResult of the execute that has returned
TheToolResult == CHOOSE r \in router.result : TRUE

\* execute(call, timeout_s, retries) up to the loop: an unknown name returns
\* at once
Execute(name, retries) ==
    /\ router.pc \in {"idle", "done"}
    /\ router.calls < MaxRouterCalls
    /\ router' = Called(name, retries)
    /\ UNCHANGED beside_router

\* except Exception as e: last_err = e, then the backoff; any other
\* exception leaves execute
Except(exc) ==
    IF IsException(exc)
    THEN [router EXCEPT !.pc = "sleep", !.last_err = {exc},
                        !.outcomes = Append(router.outcomes, exc)]
    ELSE [router EXCEPT !.pc = "raised",
                        !.outcomes = Append(router.outcomes, exc)]

\* the next attempt: coro = self._tools[call.name](call.args), awaited under
\* asyncio.wait_for
Invoke ==
    /\ router.pc = "loop"
    /\ router.attempt < Attempts(router.retries)
    /\ router' = IF router.name \in Tools
                 THEN [router EXCEPT !.pc = "running",
                                     !.invoked = router.invoked + 1]
                 ELSE Except("KeyError")
    /\ UNCHANGED beside_router

\* the capability returns within timeout_s
ToolReturns ==
    /\ router.pc = "running"
    /\ router' = [router EXCEPT
                     !.pc = "done",
                     !.outcomes = Append(router.outcomes, "returned"),
                     !.result = {ToolResult(router.name, TRUE, {"value"}, {})}]
    /\ UNCHANGED beside_router

\* the capability raises, or wait_for cancels it at the timeout
ToolFails(exc) ==
    /\ router.pc = "running"
    /\ router' = Except(exc)
    /\ UNCHANGED beside_router

\* await asyncio.sleep(0.2 * (attempt + 1)), in tenths of a second, and on
\* to the next element of the range
Backoff ==
    /\ router.pc = "sleep"
    /\ router' = [router EXCEPT
                     !.pc = "loop",
                     !.slept = Append(router.slept, 2 * (router.attempt + 1)),
                     !.attempt = router.attempt + 1]
    /\ UNCHANGED beside_router

\* the range is exhausted: the failed ToolResult
Exhausted ==
    /\ router.pc = "loop"
    /\ router.attempt >= Attempts(router.retries)
    /\ router' = [router EXCEPT
                     !.pc = "done",
                     !.result =
                        {ToolResult(router.name, FALSE, {},
                                    IF router.last_err # {}
                                    THEN {StrOf(e) : e \in router.last_err}
                                    ELSE {<<"tool_failed">>})}]
    /\ UNCHANGED beside_router

-----------------------------------------------------------------------------
(* core/brain.py: Brain._autonomous_tool_loop, one invocation.             *)
(* What the text-generation capability returned is modelled by what the    *)
(* loop reads of it: whether re.search finds "{...}", whether json.loads   *)
(* accepts it, and the keys type, name, args and assistant of the object   *)
(* (a missing key and None are the empty set, a value v is {v}).           *)

\* NOVA_AUTONOMY_MAX_STEPS of the invocations that are made: 0 .. MaxSteps
MaxSteps == 3

\* retries of ToolRouter.execute when the caller gives none
DEFAULT_RETRIES == 1

\* the characters of a tool name
ToolText(t) ==
    CASE t = "code.read" -> <<"c","o","d","e",".","r","e","a","d">>
      [] t = "memory.rebuild_index" ->
           <<"m","e","m","o","r","y",".","r","e","b","u","i","l","d","_","i","n","d","e","x">>
      [] t = "weather.current" ->
           <<"w","e","a","t","h","e","r",".","c","u","r","r","e","n","t">>

\* self._router.list_tools()
list_tools == {ToolText(t) : t \in Tools}

\* the tool of a listed name
ToolNamed(chars) == CHOOSE t \in Tools : ToolText(t) = chars

NoObj == [type |-> {}, name |-> {}, args |-> {}, assistant |-> {}]

\* no "{...}" in the output (or no output at all)
Unparseable == [found |-> FALSE, loads |-> FALSE, obj |-> NoObj]

\* "{...}" that json.loads rejects
BadJson == [found |-> TRUE, loads |-> FALSE, obj |-> NoObj]

Json(o) == [found |-> TRUE, loads |-> TRUE, obj |-> o]

ToolObj(name, args) ==
    Json([NoObj EXCEPT !.type = {"tool"}, !.name = {name}, !.args = args])

\* {"type":"tool","name":"bogus.tool","args":{}}
BogusTool == ToolObj(<<"b","o","g","u","s",".","t","o","o","l">>, {"dict"})

\* what the planning call returns
PlannerOutputs ==
    { Unparseable,
      BadJson,
      Json(NoObj),
      Json([NoObj EXCEPT !.type = {"note"}]),
      Json([NoObj EXCEPT !.type = {"final"}]),
      Json([NoObj EXCEPT !.type = {"final"}, !.assistant = {<<" ","O","k"," ">>},
                         !.name = {ToolText("code.read")}, !.args = {"dict"}]),
      BogusTool,
      ToolObj(ToolText("code.read"), {"list"}),
      ToolObj(ToolText("code.read"), {}),
      ToolObj(ToolText("code.read"), {"dict"}),
      ToolObj(<<" ">> \o ToolText("code.read") \o <<" ">>, {"dict"}) }

\* what the summarization call returns: nothing, or a text
SummaryOutputs == { <<>>, <<"D","o","n","e",".","\n">> }

\* the tool_calls list the caller hands in
GivenLogs == { <<>>, <<[name |-> "project.scaffold", ok |-> TRUE]>> }

\* x or ""
OrEmpty(x) == IF x = {} THEN <<>> ELSE CHOOSE v \in x : TRUE

\* a range that runs once more
Steps_OneMore(max_steps) == IF max_steps > 1 THEN max_steps + 1 ELSE 2

\* max(1, int(self._autonomy_max_steps))
Steps(max_steps) == IF max_steps > 1 THEN max_steps ELSE 1

\* no invocation has been made
IdleLoop ==
    [pc |-> "idle", max_steps |-> 0, i |-> 0, planned |-> 0, executed |-> 0,
     summarized |-> 0, raws |-> <<>>, history |-> <<>>, given |-> <<>>,
     tool_calls |-> <<>>, assistant |-> <<>>, summary |-> {}]

\* the variables neither ToolRouter.execute nor the loop touches
beside_tools == <<boot, registry, memory_save_mode, pending_memory, chat, stores, write_lock,
                  initialized, pc, op, sub, result, next_id, now>>

\* the early return when autonomy is off or no model is loaded, else the
\* first element of the range
LoopStart(max_steps, given, enabled) ==
    /\ loop.pc = "idle"
    /\ router.pc = "idle"
    /\ loop' = IF ~ enabled
               THEN [IdleLoop EXCEPT !.pc = "done", !.max_steps = max_steps,
                                     !.given = given, !.tool_calls = given]
               ELSE [IdleLoop EXCEPT !.pc = "generate", !.max_steps = max_steps,
                                     !.given = given, !.tool_calls = given]
    /\ UNCHANGED <<router, beside_tools>>

\* a loop that returns after its last step without the summarization call
Continue_NoSummary(l, what) ==
    [l EXCEPT !.history = Append(l.history, [step |-> l.i + 1, what |-> what]),
              !.i = l.i + 1,
              !.pc = IF l.i + 1 < Steps(l.max_steps) THEN "generate" ELSE "done"]

\* history.append(...); continue: the next element of the range, or the
\* code after the loop
Continue(l, what) ==
    [l EXCEPT !.history = Append(l.history, [step |-> l.i + 1, what |-> what]),
              !.i = l.i + 1,
              !.pc = IF l.i + 1 < Steps(l.max_steps) THEN "generate" ELSE "summarize"]

\* a loop that treats a final object as one more invalid step
Planned_FinalGoesOn(l, raw) == Continue(l, "final")

\* a loop that gives up at an object of another type
Planned_InvalidTypeEnds(l, raw) ==
    IF ~ raw.found THEN Continue(l, "planner_output_unparseable")
    ELSE IF ~ raw.loads THEN Continue(l, "planner_json_error")
    ELSE IF raw.obj.type = {"final"}
    THEN [l EXCEPT !.pc = "done", !.assistant = Strip(OrEmpty(raw.obj.assistant))]
    ELSE IF raw.obj.type # {"tool"} THEN [l EXCEPT !.pc = "done"]
    ELSE IF Strip(OrEmpty(raw.obj.name)) \notin list_tools
    THEN Continue(l, "unknown_tool")
    ELSE IF raw.obj.args # {"dict"} THEN Continue(l, "invalid_args")
    ELSE [l EXCEPT !.pc = "execute", !.executed = l.executed + 1]

\* a loop that does not look at the type of args
Planned_ArgsUnchecked(l, raw) ==
    IF ~ raw.found THEN Continue(l, "planner_output_unparseable")
    ELSE IF ~ raw.loads THEN Continue(l, "planner_json_error")
    ELSE IF raw.obj.type = {"final"}
    THEN [l EXCEPT !.pc = "done", !.assistant = Strip(OrEmpty(raw.obj.assistant))]
    ELSE IF raw.obj.type # {"tool"} THEN Continue(l, "planner_invalid_type")
    ELSE IF Strip(OrEmpty(raw.obj.name)) \notin list_tools
    THEN Continue(l, "unknown_tool")
    ELSE [l EXCEPT !.pc = "execute", !.executed = l.executed + 1]

\* raw = await self._llm.generate(prompt, ...) has returned: a step of the
\* loop up to its continue, its return, or its await of the router
Planned(l, raw) ==
    IF ~ raw.found THEN Continue(l, "planner_output_unparseable")
    ELSE IF ~ raw.loads THEN Continue(l, "planner_json_error")
    ELSE IF raw.obj.type = {"final"}
    THEN [l EXCEPT !.pc = "done", !.assistant = Strip(OrEmpty(raw.obj.assistant))]
    ELSE IF raw.obj.type # {"tool"} THEN Continue(l, "planner_invalid_type")
    ELSE IF Strip(OrEmpty(raw.obj.name)) \notin list_tools
    THEN Continue(l, "unknown_tool")
    ELSE IF raw.obj.args # {"dict"} THEN Continue(l, "invalid_args")
    ELSE [l EXCEPT !.pc = "execute", !.executed = l.executed + 1]

LoopPlanned(raw) ==
    /\ loop.pc = "generate"
    /\ loop' = Planned([loop EXCEPT !.planned = loop.planned + 1,
                                     !.raws = Append(loop.raws, raw)], raw)
    /\ router' = IF loop'.pc = "execute"
                 THEN Called(ToolNamed(Strip(OrEmpty(raw.obj.name))), DEFAULT_RETRIES)
                 ELSE router
    /\ UNCHANGED beside_tools

\* res = await self._router.execute(call) has returned: the call is logged
LoopToolDone ==
    /\ loop.pc = "execute"
    /\ router.pc = "done"
    /\ loop' = Continue([loop EXCEPT
                            !.tool_calls = Append(loop.tool_calls,
                                                  [name |-> TheToolResult.name,
                                                   ok |-> TheToolResult.ok])],
                        IF TheToolResult.ok THEN "tool ok" ELSE "tool failed")
    /\ UNCHANGED <<router, beside_tools>>

\* the summarization call after the loop has returned: summary is what the
\* call gave, assistant what the loop returns, str(assistant or "").strip()
LoopSummarized(text) ==
    /\ loop.pc = "summarize"
    /\ loop' = [loop EXCEPT !.pc = "done", !.summarized = loop.summarized + 1,
                            !.summary = {text}, !.assistant = Strip(text)]
    /\ UNCHANGED <<router, beside_tools>>

-----------------------------------------------------------------------------
(* plugins/registry.py: ToolRegistry. register holds self._lock over a     *)
(* body without an await and register_sync is synchronous, so each         *)
(* registration is one step.                                               *)

\* registrations that are attempted
MaxRegistrations == 3

\* the ToolSpec values that are registered: two names, each with two
\* descriptions and two functions
ToolSpecs ==
    [name : {"weather.current", "web.search"}, description : {"a", "b"},
     fn : {"f1", "f2"}]

\* ToolRegistry.__init__: self._tools = {}; log is the history of the calls
EmptyRegistry == [tools |-> <<>>, log |-> <<>>]

\* self._tools[spec.name] = spec
DictSet(d, key, value) ==
    [k \in DOMAIN d \cup {key} |-> IF k = key THEN value ELSE d[k]]

\* a registration without the test for the name
Registered_Overwrites(tools, spec) == DictSet(tools, spec.name, spec)

\* self._tools after register(spec) or register_sync(spec): unchanged when the
\* name is taken, which is when the call raises RuntimeError
RegisteredTools(tools, spec) ==
    IF spec.name \in DOMAIN tools THEN tools ELSE DictSet(tools, spec.name, spec)

\* the variables the registry leaves alone
beside_registry == <<boot, loop, router, memory_save_mode, pending_memory, chat, stores,
                     write_lock, initialized, pc, op, sub, result, next_id, now>>

\* the registry after one call of register or register_sync
AfterRegistration(via, spec) ==
    [tools |-> RegisteredTools(registry.tools, spec),
     log |-> Append(registry.log,
                    [via |-> via, spec |-> spec,
                     raised |-> spec.name \in DOMAIN registry.tools])]

\* async def register(self, spec)
register(spec) ==
    /\ Len(registry.log) < MaxRegistrations
    /\ registry' = AfterRegistration("register", spec)
    /\ UNCHANGED beside_registry

\* def register_sync(self, spec), also the decorator tool(name, description)
register_sync(spec) ==
    /\ Len(registry.log) < MaxRegistrations
    /\ registry' = AfterRegistration("register_sync", spec)
    /\ UNCHANGED beside_registry

\* Brain.__init__: the save mode of the environment, nothing staged
InitBrain(mode) ==
    /\ memory_save_mode = mode
    /\ pending_memory = [c \in ChatConversations |-> <<>>]
    /\ chat = IdleChat
    /\ router = IdleRouter
    /\ loop = IdleLoop
    /\ registry = EmptyRegistry
    /\ boot = NoBoot

\* the memory calls that have been started
Started == Cardinality({i \in Calls : pc[i] # "new"})

\* the chat is about to make a memory call of the kind
WantsCall(kind) ==
    /\ chat.pc = "run"
    /\ chat.todo # <<>>
    /\ Head(chat.todo).kind = kind
    /\ Started = chat.made

\* the chat record of a chat that begins
Begun(conv_id, message, clean) ==
    [IdleChat EXCEPT !.conversation_id = conv_id,
                     !.message = IF clean = <<>> THEN Strip(message) ELSE clean,
                     !.queue0 = pending_memory[conv_id],
                     !.made = chat.made]

\* the chat goes on to a phase with the memory calls of the phase to make
Go(phase, todo) == [chat EXCEPT !.phase = phase, !.todo = todo]

\* chat after _sanitize_user_text, up to its first await: a question a fast
\* path answers is answered from the facts (get_facts and get_latest_fact
\* await initialize()) and chat returns; otherwise the user turn is to be
\* ingested
ChatBegins(begun, fast) ==
    /\ chat.pc = "idle"
    /\ Started = chat.made
    /\ IF fast
       THEN /\ chat' = [begun EXCEPT !.phase = "fast", !.outcome = "returned"]
            /\ initialize
       ELSE /\ chat' = [begun EXCEPT !.pc = "run", !.phase = "ingest_user",
                                     !.todo = << IngestTurnCall(<<"u","s","e","r">>, begun.message) >>]
            /\ UNCHANGED <<chroma, snapshots, initialized>>
    /\ UNCHANGED <<boot, registry, loop, router, memory_save_mode, pending_memory, facts, people, events, turns,
                   conversations, diskcache, audit, write_lock, pc, op, sub, result,
                   next_id, now>>

\* chat(message, conversation_id); queue0 is the queue of the conversation
\* when the chat begins
ChatStart(conv_id, message) ==
    ChatBegins(Begun(conv_id, message, sanitize_user_text(message)),
               TakesFastPath(sanitize_user_text(message)))

\* the chat record after the awaited memory call d: passed are the staged
\* facts handed to add_fact by the flush, wrote every add_fact call of the chat
Awaited(d) ==
    [chat EXCEPT !.made = @ + 1,
                 !.passed = IF chat.phase = "flush" THEN Append(@, d) ELSE @,
                 !.wrote = IF d.kind = "add_fact" THEN Append(@, d) ELSE @]

\* the awaited memory call has come back: an exception of a write goes up
\* through chat, which has no handler for it; otherwise chat goes on with its
\* next call
ChatResume ==
    /\ chat.pc = "run"
    /\ chat.todo # <<>>
    /\ Started = chat.made + 1
    /\ pc[Started] = "done"
    /\ chat' = IF result[Started].status = "raised"
               THEN [Awaited(Head(chat.todo)) EXCEPT !.pc = "idle", !.outcome = "raised",
                                                     !.todo = <<>>]
               ELSE [Awaited(Head(chat.todo)) EXCEPT !.todo = Tail(@)]
    /\ UNCHANGED <<boot, registry, loop, router, memory_save_mode, pending_memory, stores, write_lock, initialized,
                   pc, op, sub, result, next_id, now>>

\* a pop that drops the queue of every conversation
Popped_Every == [c \in DOMAIN pending_memory |-> <<>>]

\* self._pending_memory.pop(conv_id, None)
Popped == [pending_memory EXCEPT ![chat.conversation_id] = <<>>]

\* after an approval or a denial: a pure one is acknowledged at once and chat
\* returns after the acknowledgement is ingested; otherwise chat goes on to
\* _extract_facts
AckOrExtract(ack) ==
    IF IsPureReply(chat.message)
    THEN Go("ack", << IngestTurnCall(<<"a","s","s","i","s","t","a","n","t">>, ack) >>)
    ELSE Go("extract", <<>>)

\* the user turn is ingested: pending = self._pending_memory.get(conv_id) or
\* [], then the approval is tested before the denial
AfterUserTurn(pending) ==
    IF pending # <<>> /\ is_memory_confirm(chat.message)
    THEN /\ chat' = Go("flush", FlushCalls(pending))
         /\ UNCHANGED pending_memory
    ELSE IF pending # <<>> /\ is_memory_deny(chat.message)
    THEN /\ pending_memory' = Popped
         /\ chat' = AckOrExtract(DENY_ACK)
    ELSE /\ chat' = Go("extract", <<>>)
         /\ UNCHANGED pending_memory

\* every staged fact has been handed to add_fact: the queue is dropped
AfterFlush ==
    /\ pending_memory' = Popped
    /\ chat' = AckOrExtract(CONFIRM_ACK)

\* _extract_facts after the identity facts: in an asking mode the family
\* facts are staged behind what is staged, otherwise they are written; the
\* relationship and pet facts are written in every mode
StageOrSave(staged, direct) ==
    IF staged # <<>> /\ AsksFirst
    THEN /\ pending_memory' =
                [pending_memory EXCEPT ![chat.conversation_id] = StagedQueue(@, staged)]
         /\ chat' = [Go("direct", direct) EXCEPT !.ask_to_confirm = TRUE]
    ELSE /\ chat' = Go("direct", FlushCalls(staged) \o direct)
         /\ UNCHANGED pending_memory

\* the code of chat between two memory calls
ChatAdvance ==
    /\ chat.pc = "run"
    /\ chat.todo = <<>>
    /\ Started = chat.made
    /\ CASE chat.phase = "ingest_user" -> AfterUserTurn(pending_memory[chat.conversation_id])
         [] chat.phase = "flush" -> AfterFlush
         [] chat.phase = "extract" ->
              /\ chat' = Go("identity", ExtractIdentity(chat.message))
              /\ UNCHANGED pending_memory
         [] chat.phase = "identity" ->
              StageOrSave(ExtractPending(chat.message), ExtractDirect(chat.message))
         [] chat.phase = "direct" ->
              /\ chat' = Go("search", << SearchCall(SearchQuery(chat.message)) >>)
              /\ UNCHANGED pending_memory
         [] chat.phase = "search" ->
              /\ \E assistant \in Replies :
                     chat' = Go("reply", << IngestTurnCall(<<"a","s","s","i","s","t","a","n","t">>,
                                                ReplyText(assistant, chat.ask_to_confirm)) >>)
              /\ UNCHANGED pending_memory
         [] chat.phase \in {"reply", "ack"} ->
              /\ chat' = [chat EXCEPT !.pc = "idle", !.outcome = "returned"]
              /\ UNCHANGED pending_memory
    /\ UNCHANGED <<boot, registry, loop, router, memory_save_mode, stores, write_lock, initialized, pc, op, sub,
                   result, next_id, now>>

-----------------------------------------------------------------------------
(* The memory subsystem under concurrent calls whose backend calls may fail. *)

\* MemoryUnifier.__init__ over empty backends, and n calls yet to be made
InitUnifier(n) ==
    /\ facts = <<>>
    /\ people = <<>>
    /\ events = <<>>
    /\ turns = <<>>
    /\ conversations = {}
    /\ chroma = {}
    /\ diskcache = {}
    /\ audit = <<>>
    /\ snapshots = <<>>
    /\ write_lock = 0
    /\ initialized = FALSE
    /\ pc = [i \in 1..n |-> "new"]
    /\ op = [i \in 1..n |-> NoOp]
    /\ sub = [i \in 1..n |-> NoSubs]
    /\ result = [i \in 1..n |-> NoResult]
    /\ next_id = 1
    /\ now = 0

\* the memory subsystem and a Brain of the default save mode that is not used
InitCalls(n) == InitUnifier(n) /\ InitBrain("all")

Init == InitCalls(MaxCalls)

\* no call is between its start and its end, and no backend coroutine runs
Quiescent ==
    \A i \in Calls : pc[i] \in {"new", "done"} /\ \A b \in Backends : sub[i][b] # "run"

Next ==
    \/ \E i \in Calls, e \in Entities, a \in Attributes, v \in SpecValues, c \in Confidences :
           add_fact(i, e, a, v, c)
    \/ \E i \in Calls, n \in PersonNames, m \in AttributeMaps : upsert_person(i, n, m)
    \/ \E i \in Calls, d \in EventDates, n \in EventNotes : add_event(i, d, n)
    \/ \E i \in Calls, c \in Conversations, t \in Contents :
           ingest_turn(i, c, <<"u","s","e","r">>, t)
    \/ \E i \in Calls, e \in Entities, dry \in BOOLEAN : purge_facts(i, e, <<>>, {}, <<>>, dry)
    \/ \E i \in Calls : RebuildReset(i)
    \/ \E i \in Calls : RebuildRead(i)
    \/ \E i \in Calls : RebuildUpsert(i)
    \/ \E i \in Calls : AcquireLock(i)
    \/ \E i \in Calls, b \in Backends : BackendOk(i, b)
    \/ \E i \in Calls, b \in Backends : BackendFail(i, b)
    \/ \E i \in Calls : GatherFinish(i)

Spec == Init /\ [][Next]_vars

-----------------------------------------------------------------------------
(* The memory subsystem under calls made one after the other, none failing. *)

NextSeq ==
    \/ \E i \in Calls, e \in Entities, a \in GuardAttributes, v \in Values, c \in Confidences :
           Quiescent /\ add_fact(i, e, a, v, c)
    \/ \E i \in Calls, n \in PersonNames, m \in AttributeMaps :
           Quiescent /\ upsert_person(i, n, m)
    \/ \E i \in Calls, d \in EventDates, n \in EventNotes : Quiescent /\ add_event(i, d, n)
    \/ \E i \in Calls, e \in Entities, dry \in BOOLEAN :
           Quiescent /\ purge_facts(i, e, <<>>, {}, <<>>, dry)
    \/ \E i \in Calls : Quiescent /\ RebuildReset(i)
    \/ \E i \in Calls : RebuildRead(i)
    \/ \E i \in Calls : RebuildUpsert(i)
    \/ \E i \in Calls : AcquireLock(i)
    \/ \E i \in Calls, b \in Backends : BackendOk(i, b)
    \/ \E i \in Calls : GatherFinish(i)

InitSeq == InitCalls(MaxSeqCalls)

SpecSeq == InitSeq /\ [][NextSeq]_vars

-----------------------------------------------------------------------------
(* Writes and searches made one after the other, none failing. The backend  *)
(* coroutines of a gather touch different stores, so the order in which     *)
(* they finish does not change the state the write leaves: they are taken   *)
(* in the order gather was given them.                                      *)

\* the order of the coroutines in asyncio.gather(...)
GatherOrder == <<"sqlite", "json", "chroma", "diskcache">>

\* the coroutines gather was given before b have finished
InGatherOrder(i, b) ==
    \A m, n \in DOMAIN GatherOrder :
        (GatherOrder[n] = b /\ m < n) => sub[i][GatherOrder[m]] # "run"

SearchValues == { <<"J","o">>, <<"A","l">> }

SearchQueries == { <<"u","s","e","r">>, <<"u","s","e","r"," ","n","a","m","e">> }

SearchLimits == {0, 1, 2}

InitSearch == InitCalls(MaxSearchCalls)

NextSearch ==
    \/ \E i \in Calls, e \in Entities, v \in SearchValues, c \in Confidences :
           Quiescent /\ add_fact(i, e, <<"n","a","m","e">>, v, c)
    \/ \E i \in Calls, n \in PersonNames :
           Quiescent /\ upsert_person(i, n, << << <<"r","e","l","a","t","i","o","n">>,
                                                 <<"u","s","e","r">> >> >>)
    \/ \E i \in Calls, c \in Conversations :
           Quiescent /\ ingest_turn(i, c, <<"u","s","e","r">>,
                                    <<"u","s","e","r"," ","n","a","m","e">>)
    \/ \E i \in Calls, q \in SearchQueries, c \in Conversations, limit \in SearchLimits :
           Quiescent /\ search(i, q, c, limit)
    \/ \E i \in Calls : AcquireLock(i)
    \/ \E i \in Calls, b \in Backends : InGatherOrder(i, b) /\ BackendOk(i, b)
    \/ \E i \in Calls : GatherFinish(i)

SpecSearch == InitSearch /\ [][NextSearch]_vars

-----------------------------------------------------------------------------
(* The claims. *)

\* the case C1 is about: the attribute, trimmed and lower-cased, is a guarded
\* relationship attribute and the trimmed value is empty, shorter than 2
\* characters, a placeholder token of that attribute, or without a letter
C1_Rejectable(attribute, value) ==
    LET k == Lower(Strip(attribute))
        v == Strip(value)
    IN  /\ k \in deny_by_attr_keys
        /\ \/ v = <<>>
           \/ Len(v) < 2
           \/ Lower(v) \in deny_by_attr(k)
           \/ \A n \in 1..Len(v) : ~ IsAlpha(v[n])

\* C1: an add_fact call whose attribute is guarded and whose value is empty,
\* too short, a placeholder or without a letter returns an id without raising,
\* in one step that leaves DurableStore, SemanticIndex, EphemeralCache and
\* AuditLog as they were, so get_latest_fact(entity, attribute) answers the same
\* before and after the call.
C1_GuardRejectsWithoutWriting ==
    [][\A i \in Calls :
          ( /\ pc[i] = "new"
            /\ pc'[i] # "new"
            /\ op'[i].kind = "add_fact"
            /\ C1_Rejectable(op'[i].attribute, op'[i].value) )
          => ( /\ pc'[i] = "done"
               /\ result'[i].status = "returned"
               /\ stores' = stores
               /\ GetLatestFact(facts', op'[i].entity, op'[i].attribute)
                      = GetLatestFact(facts, op'[i].entity, op'[i].attribute) )]_vars

\* C1 witness: a placeholder value was rejected for a pair that has an earlier
\* fact, which get_latest_fact still returns
C1_Witness ==
    \E i \in Calls :
        /\ pc[i] = "done"
        /\ op[i].kind = "add_fact"
        /\ C1_Rejectable(op[i].attribute, op[i].value)
        /\ Strip(op[i].value) # <<>>
        /\ result[i].status = "returned"
        /\ GetLatestFact(facts, op[i].entity, op[i].attribute) # <<>>

\* C2: a write whose DurableStore call succeeded reports success (returns its
\* id) even when its SemanticIndex, AuditLog or EphemeralCache call failed.
C2_DurableSuccessReportsSuccess ==
    \A i \in Calls :
        (pc[i] = "done" /\ IsWrite(op[i]) /\ sub[i]["sqlite"] = "ok")
            => (result[i].status = "returned" /\ result[i].id = op[i].id)

\* the calls that have a backend coroutine in flight
InFlight == {i \in Calls : \E b \in Backends : sub[i][b] = "run"}

\* C3: the backend calls of at most one write are in flight at any time,
\* whether backend calls succeed or fail.
C3_OneFanOutInFlight == Cardinality(InFlight) <= 1

\* C8: a write whose DurableStore call failed fails as a whole: the caller gets
\* the exception and no id.
C8_DurableFailureFailsTheWrite ==
    \A i \in Calls :
        (pc[i] = "done" /\ IsWrite(op[i]) /\ sub[i]["sqlite"] = "fail")
            => (result[i].status = "raised" /\ result[i].id = 0)

\* C8 witness: a write came back although only its DurableStore call failed and
\* the three other backends had taken the record
C8_Witness ==
    \E i \in Calls :
        /\ pc[i] = "done"
        /\ op[i].kind = "add_fact"
        /\ sub[i]["sqlite"] = "fail"
        /\ \A b \in Backends \ {"sqlite"} : sub[i][b] = "ok"

\* C9: whenever no write, purge or rebuild is in flight, every document id of
\* the SemanticIndex is the id of a fact, person or event of the DurableStore,
\* and the index holds at most one document per record.
C9_IndexIdsAreDurableIds ==
    Quiescent =>
        /\ \A d \in chroma : d.id \in DurableIds
        /\ \A d, e \in chroma : d.id = e.id => d = e

\* q is one search term and occurs in the entity e
IsTermOf(q, e) ==
    /\ SearchTerms(Lower(Strip(q))) = << Lower(Strip(q)) >>
    /\ Contains(Lower(e), Lower(Strip(q)))

\* call j is a finished search(q, conversation_id, limit >= 1) made right after
\* the add_fact of call i, which passed the write guard and returned, and q is
\* a term contained in the entity of that fact
C4_Case(i, j) ==
    /\ j = i + 1
    /\ op[i].kind = "add_fact"
    /\ op[i].id # 0
    /\ result[i].status = "returned"
    /\ op[j].kind = "search"
    /\ pc[j] = "done"
    /\ \A k \in Calls : k > j => pc[k] = "new"
    /\ op[j].limit >= 1
    /\ IsTermOf(op[j].q, op[i].entity)

\* the search of call j returned a hit with the text of the fact of write o
HasFactHit(j, o) ==
    \E n \in 1..Len(result[j].hits) :
        result[j].hits[n].text = FactText(o.entity, o.attribute, o.value)

\* the facts other than id that search_facts(q) matches and whose created_at
\* is not older than that of the fact id
NotOlderMatches(q, id) ==
    {n \in 1..Len(facts) :
        /\ facts[n].id # id
        /\ \/ LikeMatch(LikePattern(q), facts[n].entity)
           \/ LikeMatch(LikePattern(q), facts[n].attribute)
           \/ LikeMatch(LikePattern(q), facts[n].value)
        /\ \E m \in 1..Len(facts) :
               facts[m].id = id /\ facts[n].created_at >= facts[m].created_at}

\* C4 as stated: after add_fact(e, a, v) passed the guard and returned, and
\* whatever writes and searches came before, the following search(q, conv,
\* limit >= 1) with q a term contained in e returns a hit with the text
\* 'FACT e a = v'.
C4_SearchFindsNewFact ==
    \A i, j \in Calls : C4_Case(i, j) => HasFactHit(j, op[i])

\* C4 amended: the same, for a search that is not answered from an unexpired
\* non-empty EphemeralCache entry of its key, and when fewer than limit (and
\* fewer than the 12 rows search_facts reads) other facts matching q have a
\* created_at that is not older than the new fact's.
C4_UncachedSearchFindsNewFact ==
    \A i, j \in Calls :
        ( /\ C4_Case(i, j)
          /\ ~ op[j].cache_hit
          /\ Cardinality(NotOlderMatches(Strip(op[j].q), op[i].id)) < op[j].limit
          /\ Cardinality(NotOlderMatches(Strip(op[j].q), op[i].id)) < FACT_LIMIT )
        => HasFactHit(j, op[i])

\* C4 witness: a search on the cache-miss path found the fact just written,
\* after an earlier write and an earlier search
C4_Witness ==
    \E i, j \in Calls :
        /\ C4_Case(i, j)
        /\ ~ op[j].cache_hit
        /\ Cardinality(NotOlderMatches(Strip(op[j].q), op[i].id)) < op[j].limit
        /\ HasFactHit(j, op[i])
        /\ \E k \in 1..(i - 1) : op[k].kind = "search"
        /\ \E k \in 1..(i - 1) : op[k].kind = "add_fact"

\* C10: a finished search with limit >= 0 returned at most limit hits, ordered
\* by score, non-increasing, whether the list was computed or taken from the
\* EphemeralCache.
C10_SearchBoundedAndSorted ==
    \A j \in Calls :
        (op[j].kind = "search" /\ pc[j] = "done" /\ op[j].limit >= 0)
        => /\ Len(result[j].hits) <= op[j].limit
           /\ \A n \in 1..(Len(result[j].hits) - 1) :
                  result[j].hits[n].score >= result[j].hits[n + 1].score

\* C10 witness: a search with limit = 2 answered from the EphemeralCache
\* returned two hits of different scores, which an earlier search had computed
C10_Witness ==
    \E j, k \in Calls :
        /\ j < k
        /\ op[k].kind = "search" /\ pc[k] = "done" /\ op[k].cache_hit
        /\ op[k].limit = 2
        /\ Len(result[k].hits) = 2
        /\ result[k].hits[1].score > result[k].hits[2].score
        /\ op[j].kind = "search" /\ pc[j] = "done" /\ ~ op[j].cache_hit
        /\ result[j].hits = result[k].hits

-----------------------------------------------------------------------------

-----------------------------------------------------------------------------
(* Chats made one after the other in one conversation. The memory calls of  *)
(* a chat use the calls of the memory subsystem in order; the backend       *)
(* coroutines of a gather are taken in gather order, and at most MaxFaults  *)
(* of them raise. The clock ticks once per turn ingested.                   *)

SaveModes == {"ask", "all"}

Utterances ==
    { <<"m","y"," ","k","i","d","s"," ","a","r","e"," ","A","l"," ","a","n","d"," ","B","o">>, <<" ","y","e","s"," ">>, <<"n","o">>, <<"d","o"," ","n","o","t"," ","r","e","m","e","m","b","e","r"," ","t","h","i","s">>,
      <<"m","y"," ","w","i","f","e"," ","i","s"," ","J","o">>, <<"p","l","e","a","s","e"," ","r","e","m","e","m","b","e","r"," ","m","y"," ","w","i","f","e"," ","i","s"," ","J","o">>,
      <<"y","e","s",","," ","r","e","m","e","m","b","e","r"," ","m","y"," ","w","i","f","e","'","s"," ","n","a","m","e","?">>, <<"m","y"," ","m","o","m"," ","i","s"," ","A","n","n">>, <<"m","y"," ","n","a","m","e"," ","i","s"," ","A","l">> }

\* the backend whose coroutines may raise: the SemanticIndex
FaultyBackends == {"chroma"}

\* the backend coroutines that have raised
Faults == Cardinality({x \in Calls \X Backends : sub[x[1]][x[2]] = "fail"})

InitChat == InitUnifier(MaxChatCalls) /\ \E mode \in SaveModes : InitBrain(mode)

NextChat ==
    \/ \E c \in Conversations, m \in Utterances : ChatStart(c, m)
    \/ ChatResume
    \/ ChatAdvance
    \/ \E i \in Calls :
           /\ WantsCall("add_fact")
           /\ add_fact(i, Head(chat.todo).entity, Head(chat.todo).attribute,
                       Head(chat.todo).value, Head(chat.todo).confidence)
    \/ \E i \in Calls :
           /\ WantsCall("upsert_person")
           /\ upsert_person(i, Head(chat.todo).name, Head(chat.todo).attributes)
    \/ \E i \in Calls :
           /\ WantsCall("ingest_turn")
           /\ ingest_turn(i, chat.conversation_id, Head(chat.todo).role,
                          Head(chat.todo).content)
           /\ now' = now + 1
    \/ \E i \in Calls :
           /\ WantsCall("search")
           /\ search(i, Head(chat.todo).q, chat.conversation_id, CHAT_SEARCH_LIMIT)
    \/ \E i \in Calls : AcquireLock(i)
    \/ \E i \in Calls, b \in Backends : InGatherOrder(i, b) /\ BackendOk(i, b) /\ now' = now
    \/ \E i \in Calls, b \in FaultyBackends :
           InGatherOrder(i, b) /\ Faults < MaxFaults /\ BackendFail(i, b)
    \/ \E i \in Calls : GatherFinish(i)

SpecChat == InitChat /\ [][NextChat]_vars

\* a chat has come to its end: it returned or raised
ChatEnded == chat.pc = "idle" /\ chat.outcome # "none"

\* the staged facts of the conversation of the chat, now
QueueNow == pending_memory[chat.conversation_id]

\* s begins with p
IsPrefix(p, s) == Len(p) <= Len(s) /\ SubSeq(s, 1, Len(p)) = p

\* C5: in ask mode, a chat whose utterance matches the denial set while the
\* queue of its conversation is not empty leaves the queue empty and hands
\* none of the staged facts to add_fact.
C5_DenialDiscardsQueue ==
    (ChatEnded /\ AsksFirst /\ chat.queue0 # <<>> /\ is_memory_deny(chat.message))
        => (QueueNow = <<>> /\ chat.passed = <<>>)

\* C6: in ask mode, a chat whose utterance matches the confirmation set while
\* the queue of its conversation is not empty hands every staged fact to
\* add_fact, in queue order, and leaves the queue empty.
C6_ConfirmationFlushesQueue ==
    (ChatEnded /\ AsksFirst /\ chat.queue0 # <<>> /\ is_memory_confirm(chat.message))
        => (chat.passed = FlushCalls(chat.queue0) /\ QueueNow = <<>>)

\* C7: in ask mode, a chat whose utterance matches neither set keeps the
\* staged facts it found, in their order (what it stages itself comes after
\* them), and hands none of them to add_fact.
C7_OtherUtteranceKeepsQueue ==
    (/\ ChatEnded
     /\ AsksFirst
     /\ ~ is_memory_confirm(chat.message)
     /\ ~ is_memory_deny(chat.message))
        => /\ IsPrefix(chat.queue0, QueueNow)
           /\ chat.passed = <<>>
           /\ \A k \in DOMAIN chat.wrote, j \in DOMAIN chat.queue0 :
                  chat.wrote[k] # FlushCall(chat.queue0[j])

\* a chat that found two staged facts, matched neither set, staged a third
\* fact behind them and returned
C7_Witness ==
    /\ ChatEnded
    /\ AsksFirst
    /\ chat.outcome = "returned"
    /\ ~ is_memory_confirm(chat.message)
    /\ ~ is_memory_deny(chat.message)
    /\ Len(chat.queue0) = 2
    /\ Len(QueueNow) = 3
    /\ IsPrefix(chat.queue0, QueueNow)

-----------------------------------------------------------------------------
(* A MemoryUnifier constructed over the memory directory an earlier process  *)
(* left behind: the DurableStore holds that process's rows, the              *)
(* SemanticIndex is missing, is the index of those rows, or also holds the   *)
(* documents an earlier version of the program indexed. Calls are made one   *)
(* after the other and no backend call fails.                                *)

MaxColdCalls == 2

\* a row of the facts table about the user
ColdFact(id, attribute, value, created_at) ==
    [id |-> id, entity |-> <<"u","s","e","r">>, attribute |-> attribute, value |-> value,
     confidence |-> 70, created_at |-> created_at]

\* the DurableStore the instance finds: empty; one fact; two facts of one pair
\* with a person and an event; three facts of one timestamp; two facts of one
\* pair written with the wall clock set back in between
ColdStores ==
    { [facts |-> <<>>, people |-> <<>>, events |-> <<>>],
      [facts |-> << ColdFact(1, <<"n","a","m","e">>, <<"J","o">>, 0) >>,
       people |-> <<>>, events |-> <<>>],
      [facts |-> << ColdFact(1, <<"n","a","m","e">>, <<"J","o">>, 0),
                    ColdFact(2, <<"n","a","m","e">>, <<"A","l">>, 1) >>,
       people |-> << [id |-> 5, name |-> <<"A","n","n">>, attributes_json |-> JsonDumps(<<>>),
                      created_at |-> 0] >>,
       events |-> << [id |-> 6, date |-> <<"m","a","y">>, note |-> <<"g","y","m">>,
                      created_at |-> 1] >>],
      [facts |-> << ColdFact(1, <<"n","a","m","e">>, <<"J","o">>, 1),
                    ColdFact(2, <<"s","p","o","u","s","e">>, <<"A","l">>, 1),
                    ColdFact(3, <<"n","a","m","e">>, <<"A","l">>, 1) >>,
       people |-> <<>>, events |-> <<>>],
      [facts |-> << ColdFact(1, <<"n","a","m","e">>, <<"J","o">>, 1),
                    ColdFact(2, <<"n","a","m","e">>, <<"A","l">>, 0) >>,
       people |-> <<>>, events |-> <<>>] }

\* documents of an earlier version of the program: a note, a raw turn, a turn
\* summary and a note of the assistant
LegacyDocs ==
    { [id |-> 100, text |-> <<"u","s","e","r">>, kind |-> "note", role |-> "user"],
      [id |-> 101, text |-> <<"u","s","e","r"," ","h","i">>, kind |-> "turn",
       role |-> "user"],
      [id |-> 102, text |-> <<"u","s","e","r"," ","n","a","m","e">>, kind |-> "turns",
       role |-> ""],
      [id |-> 103, text |-> <<"u","s","e","r"," ","j","o">>, kind |-> "note",
       role |-> "assistant"] }

\* the SemanticIndex the instance finds over the DurableStore d
ColdIndexes(d) ==
    { {}, RebuiltIndex(d.facts, d.people, d.events),
      RebuiltIndex(d.facts, d.people, d.events) \cup LegacyDocs }

\* the first id and the first clock reading of the new process
ColdFirstId == 10

ColdClock == 1

InitCold ==
    /\ \E d \in ColdStores :
           /\ facts = d.facts
           /\ people = d.people
           /\ events = d.events
           /\ chroma \in ColdIndexes(d)
    /\ turns = <<>>
    /\ conversations = {}
    /\ diskcache = {}
    /\ audit = <<>>
    /\ snapshots = <<>>
    /\ write_lock = 0
    /\ initialized = FALSE
    /\ pc = [i \in 1..MaxColdCalls |-> "new"]
    /\ op = [i \in 1..MaxColdCalls |-> NoOp]
    /\ sub = [i \in 1..MaxColdCalls |-> NoSubs]
    /\ result = [i \in 1..MaxColdCalls |-> NoResult]
    /\ next_id = ColdFirstId
    /\ now = ColdClock
    /\ InitBrain("all")

\* await memory.initialize(), as the application does at start-up
Initialize(i) ==
    /\ FirstNew(i)
    /\ initialize
    /\ op' = [op EXCEPT ![i] = [kind |-> "initialize"]]
    /\ result' = [result EXCEPT ![i] = [status |-> "returned", id |-> 0]]
    /\ pc' = [pc EXCEPT ![i] = "done"]
    /\ UNCHANGED <<brain, facts, people, events, turns, conversations, diskcache, audit,
                   write_lock, sub, next_id, now>>

\* the keyword parameters of MemoryUnifier.purge_facts
PurgeParams == {"entity", "attribute", "value_in", "value_ilike", "dry_run"}

\* the keywords memory_purge calls purge_facts with
PurgeKeywords == {"entity", "attribute", "value_in", "value_ilike", "dry_run", "limit"}

\* POST /memory/purge: result = await STATE.memory.purge_facts(..., limit=req.limit);
\* a keyword that is no parameter of the function makes the call raise
\* TypeError before the body of purge_facts runs
memory_purge(i, entity, attribute, value_in, value_ilike, dry_run, limit) ==
    IF PurgeKeywords \subseteq PurgeParams
    THEN purge_facts(i, entity, attribute, value_in, value_ilike, dry_run)
    ELSE /\ FirstNew(i)
         /\ op' = [op EXCEPT ![i] = [kind |-> "memory_purge", entity |-> entity,
                       attribute |-> attribute, value_in |-> value_in,
                       value_ilike |-> value_ilike, dry_run |-> dry_run,
                       limit |-> limit]]
         /\ result' = [result EXCEPT ![i] =
                          [status |-> "raised", id |-> 0, matched |-> 0, deleted |-> 0,
                           ids |-> <<>>]]
         /\ pc' = [pc EXCEPT ![i] = "done"]
         /\ UNCHANGED <<brain, stores, write_lock, initialized, sub, next_id, now>>

ColdValues == { <<"J","o">>, <<"A","l">> }

PurgeAttributes == { <<>>, <<"n","a","m","e">> }

PurgeValueSets == { {}, { <<"J","o">>, <<" ">> } }

PurgeLikes == { <<>>, <<"a","*">> }

PurgeLimits == {1}

ColdQueries == { <<"u","s","e","r">>, <<"u","s","e","r"," ","j","o">> }

ColdLimits == {1, 2}

NextCold ==
    \/ \E i \in Calls : Quiescent /\ Initialize(i)
    \/ \E i \in Calls, e \in Entities, v \in ColdValues, c \in Confidences :
           Quiescent /\ add_fact(i, e, <<"n","a","m","e">>, v, c)
    \/ \E i \in Calls, e \in Entities, a \in PurgeAttributes, vin \in PurgeValueSets,
          like \in PurgeLikes, dry \in BOOLEAN :
           Quiescent /\ purge_facts(i, e, a, vin, like, dry)
    \/ \E i \in Calls, e \in Entities, dry \in BOOLEAN, limit \in PurgeLimits :
           Quiescent /\ memory_purge(i, e, <<>>, {}, <<>>, dry, limit)
    \/ \E i \in Calls : Quiescent /\ RebuildReset(i)
    \/ \E i \in Calls : RebuildRead(i)
    \/ \E i \in Calls : RebuildUpsert(i)
    \/ \E i \in Calls, q \in ColdQueries, c \in Conversations, limit \in ColdLimits :
           Quiescent /\ search(i, q, c, limit)
    \/ \E i \in Calls : AcquireLock(i)
    \/ \E i \in Calls, b \in Backends : InGatherOrder(i, b) /\ BackendOk(i, b)
    \/ \E i \in Calls : GatherFinish(i)

SpecCold == InitCold /\ [][NextCold]_vars

\* call i is the last call made so far, and it has returned
LastDone(i) == pc[i] = "done" /\ \A j \in Calls : j > i => pc[j] = "new"

-----------------------------------------------------------------------------
(* The claims about search over an index with older documents, about        *)
(* get_latest_fact, initialize, rebuild_semantic_index and purge_facts.     *)

\* metadata the claim C11 keeps out of the semantic hits: kind "turn", a kind
\* beginning with "turn", or role "assistant"
C11_Excluded(kind, role) ==
    \/ kind = "turn"
    \/ (Len(MetaText(kind)) >= 4 /\ SubSeq(MetaText(kind), 1, 4) = <<"t","u","r","n">>)
    \/ role = "assistant"

\* C11: no hit that a search took from the SemanticIndex has metadata kind
\* "turn", a kind beginning with "turn", or role "assistant", whatever the
\* index holds and whatever the query is
C11_NoTurnOrAssistantSemanticHit ==
    \A i \in Calls :
        (pc[i] = "done" /\ op[i].kind = "search") =>
            \A n \in DOMAIN result[i].hits :
                result[i].hits[n].backend = "chroma" =>
                    ~ C11_Excluded(result[i].hits[n].kind, result[i].hits[n].role)

\* the last call was a search that missed the cache, a document of kind turn
\* or of the assistant was among the nearest documents of its query, and the
\* search returned a hit of the SemanticIndex
C11_Witness ==
    \E i \in Calls :
        /\ LastDone(i)
        /\ op[i].kind = "search"
        /\ ~ op[i].cache_hit
        /\ \E n \in DOMAIN result[i].hits : result[i].hits[n].backend = "chroma"
        /\ LET near == NearestDocs(chroma, Strip(op[i].q), op[i].limit)
           IN  \E n \in DOMAIN near : C11_Excluded(near[n].doc.kind, near[n].doc.role)

\* the entities and attributes get_latest_fact is asked about
ProbeEntities == { <<"u","s","e","r">>, <<" ","u","s","e","r">> }

ProbeAttributes ==
    { <<"n","a","m","e">>, <<"s","p","o","u","s","e">>, <<"n","a","m","e"," ">>, <<>> }

\* row k of rows has the greatest created_at, and is the first inserted of
\* the rows that have it
C12_IsLatest(rows, k) ==
    /\ \A j \in DOMAIN rows : rows[j].created_at <= rows[k].created_at
    /\ \A j \in 1..(k - 1) : rows[j].created_at < rows[k].created_at

\* the stored facts whose entity and attribute are exactly e and a
C12_SamePair(e, a) == SelectSeq(facts, LAMBDA r : r.entity = e /\ r.attribute = a)

\* the stored facts get_latest_fact(e, a) chooses from: those of the trimmed
\* entity and of the trimmed attribute, of any attribute when that is empty
C12_Asked(e, a) ==
    SelectSeq(facts, LAMBDA r : /\ r.entity = Strip(e)
                                /\ (Strip(a) = <<>> \/ r.attribute = Strip(a)))

RebuildRecords(snaps) == SelectSeq(snaps, LAMBDA r : r.kind = "semantic_index_rebuild")

\* this step is the call initialize() of call i, from its start to its return
C13_InitializeStep(i) == pc[i] = "new" /\ pc'[i] = "done" /\ op'[i].kind = "initialize"

C14_FactDoc(r) ==
    [id |-> r.id,
     text |-> <<"F","A","C","T"," ">> \o r.entity \o <<" ">> \o r.attribute
                  \o <<" ","="," ">> \o r.value]

C14_PersonDoc(r) ==
    [id |-> r.id,
     text |-> <<"P","E","R","S","O","N"," ">> \o r.name \o <<" ">> \o r.attributes_json]

C14_EventDoc(r) ==
    [id |-> r.id, text |-> <<"E","V","E","N","T"," ">> \o r.date \o <<":"," ">> \o r.note]

\* the ids and texts of the documents of an index
IdsAndTexts(coll) == {[id |-> d.id, text |-> d.text] : d \in coll}

C16_PurgeStep(i) == pc[i] = "new" /\ pc'[i] = "done" /\ op'[i].kind = "purge_facts"

\* the fact r matches the filter of the purge o: its entity, its attribute
\* when one is given, its set of values when one is given, and its pattern
\* when one is given
C16_Matches(r, o) ==
    /\ r.entity = Strip(o.entity)
    /\ (Strip(o.attribute) = <<>> \/ r.attribute = Strip(o.attribute))
    /\ (\A v \in o.value_in : Strip(v) = <<>>) \/ (\E v \in o.value_in : r.value = Strip(v))
    /\ (Strip(o.value_ilike) = <<>>
            \/ LikeMatch(ReplaceStar(Strip(o.value_ilike)), r.value))

\* the ids of the stored facts that match the filter of the purge o
C16_MatchedIds(o) == {facts[k].id : k \in {n \in DOMAIN facts : C16_Matches(facts[n], o)}}

C17_PurgeBoundedByLimit ==
    \A i \in Calls :
        (pc[i] = "done" /\ op[i].kind = "memory_purge") =>
            /\ result[i].status = "returned"
            /\ Len(result[i].ids) <= op[i].limit

-----------------------------------------------------------------------------
(* ToolRouter.execute on its own: calls with a registered or an unknown    *)
(* name and retries from -1 to MaxRetries, each attempt returning, raising *)
(* or running into the timeout.                                            *)

InitRouter == InitCalls(0)

NextRouter ==
    \/ \E name \in ToolNames, retries \in RetryValues : Execute(name, retries)
    \/ Invoke
    \/ ToolReturns
    \/ \E exc \in ToolFailures : ToolFails(exc)
    \/ Backoff
    \/ Exhausted

SpecRouter == InitRouter /\ [][NextRouter]_vars

\* the ToolResult execute returned, once it has
Returned == router.pc = "done"

TheResult == CHOOSE r \in router.result : TRUE

-----------------------------------------------------------------------------
-----------------------------------------------------------------------------
\* C19: for a registered tool and retries >= 0, execute invokes the
\* capability at most retries + 1 times, makes no attempt after the first
\* attempt that returned within the timeout, returns ok = true exactly when
\* an attempt succeeded, and returns ok = false only after exactly
\* retries + 1 failed attempts.
C19_AtMostRetriesPlusOneAttempts ==
    (router.pc # "idle" /\ router.name \in Tools /\ router.retries >= 0) =>
        /\ router.invoked <= router.retries + 1
        /\ router.invoked \in {Len(router.outcomes), Len(router.outcomes) + 1}
        /\ \A k \in 1 .. Len(router.outcomes) - 1 : router.outcomes[k] # "returned"
        /\ Returned =>
              /\ TheResult.ok <=>
                    \E k \in 1 .. Len(router.outcomes) : router.outcomes[k] = "returned"
              /\ ~ TheResult.ok =>
                    /\ router.invoked = router.retries + 1
                    /\ Len(router.outcomes) = router.retries + 1
                    /\ \A k \in 1 .. Len(router.outcomes) :
                           router.outcomes[k] \in ToolFailures

\* retries = 2: the third attempt returned after a timeout and a raise
C19_Witness ==
    /\ Returned
    /\ router.name \in Tools
    /\ router.retries = 2
    /\ router.invoked = 3
    /\ router.outcomes = <<"TimeoutError", "RuntimeError", "returned">>
    /\ router.slept = <<2, 4>>
    /\ TheResult.ok

-----------------------------------------------------------------------------
\* C20: execute on a call whose name is not registered returns a failed
\* ToolResult at once: whenever such a call has been started it has already
\* returned ok = false, no capability was invoked, no attempt was made and
\* no backoff was waited.
C20_UnknownToolFailsAtOnce ==
    (router.pc # "idle" /\ router.name \notin Tools) =>
        /\ Returned
        /\ ~ TheResult.ok
        /\ router.invoked = 0
        /\ router.attempt = 0
        /\ router.outcomes = <<>>
        /\ router.slept = <<>>

\* weather.current was called with retries = 2
C20_Witness ==
    /\ Returned
    /\ router.name = "weather.current"
    /\ router.retries = 2
    /\ router.invoked = 0
    /\ TheResult.error = {<<"Unknown tool: ", "weather.current">>}

-----------------------------------------------------------------------------
(* One invocation of Brain._autonomous_tool_loop with max_steps from 0 to  *)
(* MaxSteps: every planning call returns one of PlannerOutputs, every tool *)
(* call runs through ToolRouter.execute with its attempts returning,       *)
(* raising or timing out. Every awaited call returns, so a step that can   *)
(* be taken is taken.                                                      *)

InitLoop == InitCalls(0)

NextLoop ==
    \/ \E max_steps \in 0 .. MaxSteps, given \in GivenLogs, enabled \in BOOLEAN :
           LoopStart(max_steps, given, enabled)
    \/ \E raw \in PlannerOutputs : LoopPlanned(raw)
    \/ Invoke
    \/ ToolReturns
    \/ \E exc \in ToolFailures : ToolFails(exc)
    \/ Backoff
    \/ Exhausted
    \/ LoopToolDone
    \/ \E text \in SummaryOutputs : LoopSummarized(text)

SpecLoop == InitLoop /\ [][NextLoop]_vars /\ WF_vars(NextLoop)

\* the planner output of the latest planning call
LastRaw(l) == l.raws[Len(l.raws)]

\* the step is a planning call that returns
PlanningStep == loop.pc = "generate" /\ loop'.planned = loop.planned + 1

-----------------------------------------------------------------------------
\* max(1, max_steps), written out
C21_Bound == IF loop.max_steps > 1 THEN loop.max_steps ELSE 1

\* C21 (as stated): one invocation of the loop makes at most max_steps
\* planning calls, then at most one summarization call, and executes at most
\* max_steps tool calls.
C21_AtMostMaxSteps ==
    /\ loop.planned <= loop.max_steps
    /\ loop.executed <= loop.max_steps
    /\ loop.summarized <= 1
    /\ loop.summarized = 1 => loop.pc = "done"

\* C21 (amended): whatever the planning calls return and however the tool
\* calls end, one invocation of the loop terminates, after at most
\* max(1, max_steps) planning calls followed by at most one summarization
\* call, and it executes at most max(1, max_steps) tool calls.
C21_TerminatesWithinClampedSteps ==
    /\ [](/\ loop.planned <= C21_Bound
          /\ loop.executed <= C21_Bound
          /\ loop.executed = router.calls
          /\ loop.summarized <= 1
          /\ loop.summarized = 1 => loop.pc = "done")
    /\ (loop.pc # "idle") ~> (loop.pc = "done")

\* max_steps = 3: three tool calls, the first failed after both attempts,
\* then the summarization call
C21_Witness ==
    /\ loop.pc = "done"
    /\ loop.max_steps = 3
    /\ loop.planned = 3
    /\ loop.executed = 3
    /\ loop.summarized = 1
    /\ Len(loop.tool_calls) = 3
    /\ ~ loop.tool_calls[1].ok
    /\ loop.tool_calls[3].ok

-----------------------------------------------------------------------------
\* every planning call so far returned {"type":"tool","name":"bogus.tool","args":{}}
C22_AlwaysBogus == \A k \in 1 .. Len(loop.raws) : loop.raws[k] = BogusTool

\* the step starts a tool call through ToolRouter
C22_Executes == loop'.executed > loop.executed \/ router'.calls > router.calls

\* C22 (as stated): a tool is executed only for a planner object of type
\* 'tool' whose name is a registered tool and whose args is a mapping; when
\* every planning call returns the bogus.tool object the loop runs exactly
\* max_steps steps, calls no tool, adds nothing to the tool-call log and then
\* makes the summarization call.
C22_OnlyValidToolObjects ==
    /\ [][C22_Executes =>
              /\ PlanningStep
              /\ LastRaw(loop').obj.type = {"tool"}
              /\ OrEmpty(LastRaw(loop').obj.name) \in list_tools
              /\ LastRaw(loop').obj.args = {"dict"}]_vars
    /\ []((loop.pc = "done" /\ loop.raws # <<>> /\ C22_AlwaysBogus) =>
              /\ loop.planned = loop.max_steps
              /\ loop.executed = 0
              /\ router.calls = 0
              /\ loop.tool_calls = loop.given
              /\ loop.summarized = 1)

\* C22 (amended): a tool is executed only for a planner object of type
\* 'tool' whose name, stripped of surrounding whitespace, is a registered tool
\* and whose args is a mapping, and it is the tool of the stripped name that
\* is called; when every planning call returns the bogus.tool object the loop
\* runs exactly max(1, max_steps) steps, calls no tool, adds nothing to the
\* tool-call log and then makes the summarization call.
C22_OnlyValidStrippedToolObjects ==
    /\ [][C22_Executes =>
              /\ PlanningStep
              /\ LastRaw(loop').obj.type = {"tool"}
              /\ Strip(OrEmpty(LastRaw(loop').obj.name)) \in list_tools
              /\ LastRaw(loop').obj.args = {"dict"}
              /\ loop'.executed = loop.executed + 1
              /\ router'.calls = router.calls + 1
              /\ router'.name \in Tools
              /\ ToolText(router'.name) = Strip(OrEmpty(LastRaw(loop').obj.name))]_vars
    /\ []((loop.pc = "done" /\ loop.raws # <<>> /\ C22_AlwaysBogus) =>
              /\ loop.planned = (IF loop.max_steps > 1 THEN loop.max_steps ELSE 1)
              /\ Len(loop.history) = loop.planned
              /\ \A k \in 1 .. Len(loop.history) : loop.history[k].what = "unknown_tool"
              /\ loop.executed = 0
              /\ router.calls = 0
              /\ loop.tool_calls = loop.given
              /\ loop.summarized = 1)

\* three bogus.tool steps with a log handed in, then the summary
C22_Witness ==
    /\ loop.pc = "done"
    /\ loop.max_steps = 3
    /\ Len(loop.raws) = 3
    /\ C22_AlwaysBogus
    /\ loop.given # <<>>
    /\ loop.tool_calls = loop.given
    /\ loop.assistant = <<"D","o","n","e",".">>

\* a step executed the tool of a name that came with surrounding blanks
C22_WitnessStripped ==
    /\ loop.pc = "execute"
    /\ OrEmpty(LastRaw(loop).obj.name) \notin list_tools
    /\ router.name = "code.read"

-----------------------------------------------------------------------------
\* C23: when a planning step yields an object of type 'final' the loop
\* returns its (stripped) assistant text at once: that step starts no tool
\* call, the log of the earlier steps is returned unchanged, and after the
\* return the invocation makes no generation, tool or summarization call.
C23_FinalReturnsAtOnce ==
    /\ [][(PlanningStep /\ LastRaw(loop').found /\ LastRaw(loop').loads
                        /\ LastRaw(loop').obj.type = {"final"}) =>
              /\ loop'.pc = "done"
              /\ loop'.assistant = Strip(OrEmpty(LastRaw(loop').obj.assistant))
              /\ loop'.tool_calls = loop.tool_calls
              /\ loop'.executed = loop.executed
              /\ loop'.summarized = 0
              /\ router' = router]_vars
    /\ [][loop.pc = "done" => (loop' = loop /\ router' = router)]_vars

\* the second step was final, after a first step that executed a tool
C23_Witness ==
    /\ loop.pc = "done"
    /\ loop.max_steps = 3
    /\ loop.planned = 2
    /\ LastRaw(loop).obj.type = {"final"}
    /\ loop.assistant = <<"O","k">>
    /\ Len(loop.tool_calls) = Len(loop.given) + 1
    /\ loop.summarized = 0

-----------------------------------------------------------------------------
\* the search snapshots of snapshots.jsonl for the query q of conversation c
C24_SearchSnapshots(q, c) ==
    {k \in DOMAIN snapshots :
        /\ snapshots[k].kind = "search"
        /\ snapshots[k].q = q
        /\ snapshots[k].conversation_id = c}

\* the search calls that have returned for the query q of conversation c
C24_Searches(q, c) ==
    {j \in Calls :
        /\ pc[j] = "done"
        /\ op[j].kind = "search"
        /\ Strip(op[j].q) = q
        /\ op[j].conversation_id = c}

\* C24: the AuditLog holds a record for every write that went through the
\* backends and returned, and a search snapshot for every search call that
\* returned, whether it was answered from the cache or computed.
C24_EveryWriteAndSearchLogged ==
    /\ \A i \in Calls :
           (pc[i] = "done" /\ IsWrite(op[i]) /\ op[i].id # 0) =>
               \E k \in DOMAIN audit : audit[k] = AuditRecord(op[i])
    /\ \A j \in Calls :
           (pc[j] = "done" /\ op[j].kind = "search") =>
               Cardinality(C24_SearchSnapshots(Strip(op[j].q), op[j].conversation_id))
                 = Cardinality(C24_Searches(Strip(op[j].q), op[j].conversation_id))

-----------------------------------------------------------------------------
(* upsert_person calls made one after the other, none failing, for names   *)
(* that differ only in case.                                               *)

MaxPeopleCalls == 3

\* people.name is TEXT UNIQUE under the BINARY collation: Ann and ann are two names
PeopleNames == { <<"A","n","n">>, <<"a","n","n">> }

InitPeople == InitCalls(MaxPeopleCalls)

NextPeople ==
    \/ \E i \in Calls, n \in PeopleNames, m \in AttributeMaps :
           Quiescent /\ upsert_person(i, n, m)
    \/ \E i \in Calls : AcquireLock(i)
    \/ \E i \in Calls, b \in Backends : InGatherOrder(i, b) /\ BackendOk(i, b)
    \/ \E i \in Calls : GatherFinish(i)

SpecPeople == InitPeople /\ [][NextPeople]_vars

\* the upsert_person calls for the name n whose DurableStore statement has run
C25_Upserts(n) ==
    {i \in Calls : /\ op[i].kind = "upsert_person"
                   /\ op[i].name = n
                   /\ sub[i]["sqlite"] = "ok"}

C25_Rows(n) == {k \in DOMAIN people : people[k].name = n}

\* C25: after any sequence of upsert_person calls the DurableStore holds
\* exactly one person record per distinct name (Ann and ann are distinct),
\* with the attribute map of the latest upsert of that name and the id that
\* the first upsert of that name was given.
C25_OnePersonPerName ==
    \A n \in PeopleNames :
        IF C25_Upserts(n) = {}
        THEN C25_Rows(n) = {}
        ELSE /\ Cardinality(C25_Rows(n)) = 1
             /\ \A k \in C25_Rows(n) :
                    /\ people[k].attributes_json =
                          JsonDumps(op[SetMax(C25_Upserts(n))].attributes)
                    /\ people[k].id = op[SetMin(C25_Upserts(n))].id

\* Ann was upserted twice with different maps, ann once in between
C25_Witness ==
    /\ Quiescent
    /\ Len(people) = 2
    /\ Cardinality(C25_Upserts(<<"A","n","n">>)) = 2
    /\ Cardinality(C25_Upserts(<<"a","n","n">>)) = 1
    /\ op[1].name = <<"A","n","n">> /\ op[3].name = <<"A","n","n">>
    /\ op[1].attributes # <<>> /\ op[3].attributes = <<>>
    /\ people[1].id = op[1].id
    /\ people[1].attributes_json = <<"{", "}">>

-----------------------------------------------------------------------------
(* Reads next to writes: add_fact calls whose backend coroutines finish in *)
(* any order, and search, get_facts and get_latest_fact calls that start   *)
(* at any time, none failing.                                              *)

MaxReadCalls == 3

ReadQueries == { <<"u","s","e","r">> }

ReadLimits == {1, 2}

InitReads == InitCalls(MaxReadCalls)

NextReads ==
    \/ \E i \in Calls, e \in Entities, v \in SearchValues, c \in Confidences :
           add_fact(i, e, <<"n","a","m","e">>, v, c)
    \/ \E i \in Calls, q \in ReadQueries, c \in Conversations, limit \in ReadLimits :
           search(i, q, c, limit)
    \/ \E i \in Calls, e \in Entities, limit \in ReadLimits, newest_first \in BOOLEAN :
           get_facts(i, e, <<"n","a","m","e">>, limit, newest_first)
    \/ \E i \in Calls, e \in Entities : get_latest_fact(i, e, <<"n","a","m","e">>)
    \/ \E i \in Calls : AcquireLock(i)
    \/ \E i \in Calls, b \in Backends : BackendOk(i, b)
    \/ \E i \in Calls : GatherFinish(i)

SpecReads == InitReads /\ [][NextReads]_vars

IsRead(o) == o.kind \in {"search", "get_facts", "get_latest_fact"}

\* C26: search, get_facts and get_latest_fact never acquire the write lock:
\* once the unifier is initialized, a read can start while a write holds the
\* lock (for search the step that is asked for is the one of the empty query;
\* the searches that are made ask for "user"), and the step that takes a read
\* from its start to its return leaves the lock with the write that holds it.
C26_ReadsTakeNoWriteLock ==
    /\ [](\A i \in Calls :
              (initialized /\ write_lock # 0 /\ FirstNew(i)) =>
                  /\ ENABLED search(i, <<>>, "c1", 1)
                  /\ ENABLED get_facts(i, <<"u","s","e","r">>, <<"n","a","m","e">>, 1, TRUE)
                  /\ ENABLED get_latest_fact(i, <<"u","s","e","r">>, <<"n","a","m","e">>))
    /\ [][\A i \in Calls :
              (pc[i] = "new" /\ pc'[i] # "new" /\ IsRead(op'[i])) =>
                  /\ pc'[i] = "done"
                  /\ result'[i].status = "returned"
                  /\ write_lock' = write_lock]_vars

\* a get_latest_fact and a search that started after an add_fact had taken
\* the lock have returned, the row of the write is in the DurableStore, its
\* gather is still running and the write still holds the lock
C26_Witness ==
    /\ write_lock = 1
    /\ pc[1] = "gather"
    /\ sub[1]["sqlite"] = "ok"
    /\ sub[1]["chroma"] = "run"
    /\ op[2].kind = "get_latest_fact" /\ pc[2] = "done"
    /\ result[2].rows # <<>>
    /\ op[3].kind = "search" /\ pc[3] = "done"

-----------------------------------------------------------------------------
(* Registrations on one ToolRegistry, through register and register_sync.  *)

InitRegistry == InitCalls(0)

NextRegistry ==
    \/ \E spec \in ToolSpecs : register(spec)
    \/ \E spec \in ToolSpecs : register_sync(spec)

SpecRegistry == InitRegistry /\ [][NextRegistry]_vars

\* the calls of the log that registered or tried to register the name n
C27_CallsFor(n) == {k \in DOMAIN registry.log : registry.log[k].spec.name = n}

\* C27: register and register_sync raise when the name is already
\* registered and leave the registry as it was, otherwise they add the spec:
\* after any sequence of calls every name that was registered maps to the
\* ToolSpec of the first call for that name, and every later call for it raised.
C27_FirstRegistrationKept ==
    /\ [][\A spec \in ToolSpecs :
              (Len(registry'.log) = Len(registry.log) + 1
                  /\ registry'.log[Len(registry'.log)].spec = spec) =>
                 IF spec.name \in DOMAIN registry.tools
                 THEN /\ registry'.log[Len(registry'.log)].raised
                      /\ registry'.tools = registry.tools
                 ELSE /\ ~ registry'.log[Len(registry'.log)].raised
                      /\ DOMAIN registry'.tools = DOMAIN registry.tools \cup {spec.name}
                      /\ registry'.tools[spec.name] = spec
                      /\ \A n \in DOMAIN registry.tools :
                             registry'.tools[n] = registry.tools[n]]_vars
    /\ [](/\ DOMAIN registry.tools = {registry.log[k].spec.name : k \in DOMAIN registry.log}
          /\ \A n \in DOMAIN registry.tools :
                 /\ registry.tools[n] = registry.log[SetMin(C27_CallsFor(n))].spec
                 /\ \A k \in C27_CallsFor(n) :
                        registry.log[k].raised <=> k # SetMin(C27_CallsFor(n)))

\* weather.current was registered by register_sync, a second registration
\* with another function through register raised, then web.search was added
C27_Witness ==
    /\ Len(registry.log) = 3
    /\ registry.log[1].via = "register_sync"
    /\ registry.log[1].spec.name = "weather.current"
    /\ registry.log[2].via = "register"
    /\ registry.log[2].spec.name = "weather.current"
    /\ registry.log[2].spec.fn # registry.log[1].spec.fn
    /\ registry.log[2].raised
    /\ registry.log[3].spec.name = "web.search"
    /\ registry.tools["weather.current"] = registry.log[1].spec
    /\ DOMAIN registry.tools = {"weather.current", "web.search"}

-----------------------------------------------------------------------------
(* Staged facts and the backends. *)

\* chats of two conversations: a family fact, a parent fact, the user's name,
\* an approval and a denial
StagedUtterances ==
    { <<"m","y"," ","w","i","f","e"," ","i","s"," ","J","o">>, <<" ","y","e","s"," ">>, <<"n","o">>,
      <<"m","y"," ","m","o","m"," ","i","s"," ","A","n","n">>, <<"m","y"," ","n","a","m","e"," ","i","s"," ","A","l">> }

NextStaged ==
    \/ \E c \in ChatConversations, m \in StagedUtterances : ChatStart(c, m)
    \/ ChatResume
    \/ ChatAdvance
    \/ \E i \in Calls :
           /\ WantsCall("add_fact")
           /\ add_fact(i, Head(chat.todo).entity, Head(chat.todo).attribute,
                       Head(chat.todo).value, Head(chat.todo).confidence)
    \/ \E i \in Calls :
           /\ WantsCall("upsert_person")
           /\ upsert_person(i, Head(chat.todo).name, Head(chat.todo).attributes)
    \/ \E i \in Calls :
           /\ WantsCall("ingest_turn")
           /\ ingest_turn(i, chat.conversation_id, Head(chat.todo).role,
                          Head(chat.todo).content)
           /\ now' = now + 1
    \/ \E i \in Calls :
           /\ WantsCall("search")
           /\ search(i, Head(chat.todo).q, chat.conversation_id, CHAT_SEARCH_LIMIT)
    \/ \E i \in Calls : AcquireLock(i)
    \/ \E i \in Calls, b \in Backends : InGatherOrder(i, b) /\ BackendOk(i, b) /\ now' = now
    \/ \E i \in Calls, b \in FaultyBackends :
           InGatherOrder(i, b) /\ Faults < MaxFaults /\ BackendFail(i, b)
    \/ \E i \in Calls : GatherFinish(i)

SpecStaged == InitChat /\ [][NextStaged]_vars

\* the attributes of the facts _extract_facts appends to "pending"
StagedAttributes == {<<"s","p","o","u","s","e">>, <<"c","h","i","l","d">>, <<"c","h","i","l","d","r","e","n","_","t","y","p","e">>}

\* the ids of the fact records the four backends hold
FactIdsHeld ==
    {facts[k].id : k \in DOMAIN facts}
        \cup {d.id : d \in {x \in chroma : x.kind = "fact"}}
        \cup {e.key.id : e \in {x \in diskcache : x.key.ns = "fact"}}
        \cup {audit[k].id : k \in {j \in DOMAIN audit : audit[j].kind = "fact"}}

\* the call i is an add_fact call that has been made
IsAddFact(i) == pc[i] # "new" /\ op[i].kind = "add_fact"

\* the staged fact pf is what the add_fact call o was given
HandsOver(pf, o) ==
    /\ o.entity = pf.entity
    /\ o.attribute = pf.attribute
    /\ o.value = pf.value
    /\ o.confidence = pf.confidence

\* C28: in ask mode, an add_fact call for a fact of the staged kind is made
\* only by the flush of a chat whose utterance matches the confirmation set,
\* for a fact the queue held when that chat began (so staged by an earlier
\* utterance); every fact record a backend holds is the record of an add_fact
\* call that has been made, and a facts row of the staged kind is the row of
\* such a call with the entity, attribute and value of the call.
C28_StagedFactsWaitForConfirmation ==
    /\ [][\A i \in Calls :
            (/\ memory_save_mode = "ask"
             /\ pc[i] = "new"
             /\ pc'[i] # "new"
             /\ op'[i].kind = "add_fact"
             /\ op'[i].attribute \in StagedAttributes)
                => /\ chat.phase = "flush"
                   /\ is_memory_confirm(chat.message)
                   /\ \E k \in DOMAIN chat.queue0 : HandsOver(chat.queue0[k], op'[i])]_vars
    /\ [](memory_save_mode = "ask"
            => /\ \A id \in FactIdsHeld : \E i \in Calls : IsAddFact(i) /\ op[i].id = id
               /\ \A k \in DOMAIN facts :
                      facts[k].attribute \in StagedAttributes
                          => \E i \in Calls :
                                 /\ IsAddFact(i)
                                 /\ op[i].id = facts[k].id
                                 /\ op[i].entity = facts[k].entity
                                 /\ op[i].attribute = facts[k].attribute
                                 /\ op[i].value = facts[k].value)

\* in ask mode a chat found a staged fact, its utterance matched the
\* confirmation set, the fact was handed to add_fact and the DurableStore
\* holds its row
C28_Witness ==
    /\ memory_save_mode = "ask"
    /\ ChatEnded
    /\ chat.outcome = "returned"
    /\ chat.queue0 # <<>>
    /\ is_memory_confirm(chat.message)
    /\ chat.passed = FlushCalls(chat.queue0)
    /\ \E k \in DOMAIN facts :
           /\ facts[k].attribute \in StagedAttributes
           /\ HandsOver(chat.queue0[1], [entity |-> facts[k].entity,
                                         attribute |-> facts[k].attribute,
                                         value |-> facts[k].value,
                                         confidence |-> chat.queue0[1].confidence])

\* in ask mode a fact waits in the queue of one conversation after an
\* approval in the other conversation has returned, and no backend holds a
\* fact record
C28_WitnessWaiting ==
    /\ memory_save_mode = "ask"
    /\ ChatEnded
    /\ chat.conversation_id = "c2"
    /\ is_memory_confirm(chat.message)
    /\ pending_memory["c1"] # <<>>
    /\ FactIdsHeld = {}

-----------------------------------------------------------------------------
(* Searches, writes and the passing of time: a search may come 119 or 120   *)
(* seconds after the one before it.                                         *)

\* number of memory calls of a behaviour of cached searches
MaxCacheCalls == 4

\* the clock stops here
MaxClock == 250

\* two queries of one cache key, and the limits
CacheQueries == { <<"u","s","e","r">>, <<" ","U","S","E","R"," ">> }

CacheLimits == {0, 2}

\* the name that is written
CacheValues == { <<"J","o">> }

\* how long the program may rest between two calls
Rests == {TTL_SEARCH - 1, TTL_SEARCH}

\* no call is running and time passes
Elapse(d) ==
    /\ Quiescent
    /\ now + d <= MaxClock
    /\ now' = now + d
    /\ UNCHANGED <<brain, stores, write_lock, initialized, pc, op, sub, result, next_id>>

InitCache == InitCalls(MaxCacheCalls)

NextCache ==
    \/ \E i \in Calls, e \in Entities, v \in CacheValues, c \in Confidences :
           Quiescent /\ add_fact(i, e, <<"n","a","m","e">>, v, c)
    \/ \E i \in Calls, q \in CacheQueries, c \in Conversations, limit \in CacheLimits :
           Quiescent /\ search(i, q, c, limit)
    \/ \E d \in Rests : Elapse(d)
    \/ \E i \in Calls : AcquireLock(i)
    \/ \E i \in Calls, b \in Backends : InGatherOrder(i, b) /\ BackendOk(i, b)
    \/ \E i \in Calls : GatherFinish(i)

SpecCache == InitCache /\ [][NextCache]_vars

\* the step takes the search call i of a query that is not blank from its
\* start to its return
C29_SearchStep(i) ==
    /\ pc[i] = "new"
    /\ pc'[i] = "done"
    /\ op'[i].kind = "search"
    /\ Strip(op'[i].q) # <<>>

\* the cache key of the search o
C29_Key(o) ==
    SearchKey(Lower(Strip(o.q)), SearchTerms(Lower(Strip(o.q))), o.conversation_id, o.limit)

\* the entries the EphemeralCache holds for the key of the search o: those
\* that have not expired
C29_Entries(o) == {e \in diskcache : e.key = C29_Key(o) /\ e.expires > now}

\* what the stores give for the search o
C29_Computed(o) == Ranked(EnsuredIndex, Strip(o.q), o.conversation_id, o.limit)

\* the search i returned the hits of the entry and took the path that
\* returns before any store is queried: nothing is stored or logged
C29_AnsweredFromCache(i, e) ==
    /\ result'[i].hits = e.value.hits
    /\ op'[i].cache_hit
    /\ diskcache' = diskcache
    /\ snapshots' = EnsuredSnapshots

\* the search i returned what the stores give and stored it under its key
\* for 120 seconds
C29_ComputedAndStored(i) ==
    /\ ~ op'[i].cache_hit
    /\ result'[i].hits = C29_Computed(op'[i])
    /\ \E e \in diskcache' :
           /\ e.key = C29_Key(op'[i])
           /\ e.value.hits = result'[i].hits
           /\ e.expires = now + 120
    /\ \A e \in diskcache' : e.key = C29_Key(op'[i]) => e.value.hits = result'[i].hits

\* C29 as stated: a search whose key has an entry in the EphemeralCache
\* returns the hits of the entry and queries no store; a search whose key has
\* no entry, or one that has expired, computes its result from the stores and
\* stores it under the key for 120 seconds.
C29_EntryAnswersSearch ==
    [][\A i \in Calls :
          C29_SearchStep(i)
              => IF C29_Entries(op'[i]) # {}
                 THEN \E e \in C29_Entries(op'[i]) : C29_AnsweredFromCache(i, e)
                 ELSE C29_ComputedAndStored(i)]_vars

\* the entries for the key of the search o that hold at least one hit
C29_FullEntries(o) == {e \in C29_Entries(o) : e.value.hits # <<>>}

\* C29, amended: a search whose key has an entry of at least one hit in the
\* EphemeralCache returns the hits of the entry and queries no store; a
\* search whose key has no entry, an entry that has expired or an entry of no
\* hits computes its result from the stores and stores it under the key for
\* 120 seconds.
C29_FullEntryAnswersSearch ==
    [][\A i \in Calls :
          C29_SearchStep(i)
              => IF C29_FullEntries(op'[i]) # {}
                 THEN \E e \in C29_FullEntries(op'[i]) : C29_AnsweredFromCache(i, e)
                 ELSE C29_ComputedAndStored(i)]_vars

\* a fact was added; a search computed one hit and stored it; a second
\* search of the same key, with another spelling of the query, was answered
\* with the hits of the entry; a third search of the key, made when the
\* entry had expired, computed its result again
C29_Witness ==
    /\ \A i \in Calls : pc[i] = "done"
    /\ op[1].kind = "add_fact"
    /\ op[2].kind = "search" /\ ~ op[2].cache_hit /\ Len(result[2].hits) = 1
    /\ op[3].kind = "search" /\ op[3].cache_hit /\ result[3].hits = result[2].hits
    /\ C29_Key(op[3]) = C29_Key(op[2])
    /\ op[3].q # op[2].q
    /\ op[4].kind = "search" /\ ~ op[4].cache_hit
    /\ C29_Key(op[4]) = C29_Key(op[2])
    /\ Len(result[4].hits) = 1
    /\ \E e \in diskcache : e.key = C29_Key(op[4]) /\ e.expires = now + TTL_SEARCH

-----------------------------------------------------------------------------
(* Searches over events and facts that the DurableStore and the             *)
(* SemanticIndex both find.                                                  *)

\* number of memory calls of a behaviour of merged searches
MaxMergeCalls == 3

MergeNotes == { <<"g","y","m">>, <<"g","y","m"," ","r","u","n">> }

\* "gym run" finds the event "gym run" twice in the DurableStore, once per
\* term, and once in the SemanticIndex with 0.85 * 0.707 = 0.60, the score of
\* an event hit; "event may: gym run" is the text of that event
MergeQueries ==
    { <<"g","y","m">>, <<"g","y","m"," ","r","u","n">>,
      <<"e","v","e","n","t"," ","m","a","y",":"," ","g","y","m"," ","r","u","n">>, <<"u","s","e","r">> }

MergeLimits == {1, 3}

InitMerge == InitCalls(MaxMergeCalls)

NextMerge ==
    \/ \E i \in Calls, note \in MergeNotes :
           Quiescent /\ add_event(i, <<"m","a","y">>, note)
    \/ \E i \in Calls, e \in Entities, c \in Confidences :
           Quiescent /\ add_fact(i, e, <<"n","a","m","e">>, <<"J","o">>, c)
    \/ \E i \in Calls, q \in MergeQueries, c \in Conversations, limit \in MergeLimits :
           Quiescent /\ search(i, q, c, limit)
    \/ \E i \in Calls : AcquireLock(i)
    \/ \E i \in Calls, b \in Backends : InGatherOrder(i, b) /\ BackendOk(i, b)
    \/ \E i \in Calls : GatherFinish(i)

SpecMerge == InitMerge /\ [][NextMerge]_vars

\* the hits the sources produce for the search o, in the order the sources
\* are processed
C30_Produced(o) == SourceHits(EnsuredIndex, Strip(o.q), o.conversation_id, o.limit)

\* hs[k] is the first of the hits of its id in hs that carry the greatest
\* score of that id
C30_FirstOfBest(hs, k) ==
    \A j \in DOMAIN hs :
        hs[j].id = hs[k].id
            => \/ hs[j].score < hs[k].score
               \/ (hs[j].score = hs[k].score /\ j >= k)

\* C30: no id occurs twice in the hits a search returns, and each hit of a
\* search that computes its result is, of the hits the sources produce with
\* its id, the first that carries the greatest score.
C30_OneHitPerIdBestScore ==
    /\ [](\A i \in Calls :
            (pc[i] = "done" /\ op[i].kind = "search")
                => \A m, n \in DOMAIN result[i].hits :
                       m # n => result[i].hits[m].id # result[i].hits[n].id)
    /\ [][\A i \in Calls :
            (/\ pc[i] = "new"
             /\ pc'[i] = "done"
             /\ op'[i].kind = "search"
             /\ ~ op'[i].cache_hit)
                => \A n \in DOMAIN result'[i].hits :
                       \E k \in DOMAIN C30_Produced(op'[i]) :
                           /\ C30_Produced(op'[i])[k] = result'[i].hits[n]
                           /\ C30_FirstOfBest(C30_Produced(op'[i]), k)]_vars

\* a search returned the DurableStore's hit of an event that the
\* SemanticIndex found with the same score, and another search returned the
\* SemanticIndex's hit of an event that it scored higher than the
\* DurableStore's hit
C30_Witness ==
    \E i, j \in Calls :
        /\ pc[i] = "done" /\ op[i].kind = "search" /\ ~ op[i].cache_hit
        /\ \E n \in DOMAIN result[i].hits :
               /\ result[i].hits[n].kind = "event"
               /\ result[i].hits[n].backend = "sqlite"
               /\ result[i].hits[n].score = EVENT_SCORE
               /\ \E d \in chroma :
                      /\ d.id = result[i].hits[n].id
                      /\ (CHROMA_WEIGHT * Similarity(d.text, Strip(op[i].q))) \div 1000
                             = EVENT_SCORE
        /\ pc[j] = "done" /\ op[j].kind = "search" /\ ~ op[j].cache_hit
        /\ \E n \in DOMAIN result[j].hits :
               /\ result[j].hits[n].kind = "event"
               /\ result[j].hits[n].backend = "chroma"
               /\ result[j].hits[n].score > EVENT_SCORE

-----------------------------------------------------------------------------
(* Searches over turns of two conversations that grow old.                  *)

\* number of memory calls of a behaviour of turn searches
MaxTurnCalls == 3

\* the clock stops here
MaxTurnClock == 7330

\* a turn that holds the terms "user" and "name", and one that holds neither
TurnContents == { <<"U","s","e","r"," ","n","a","m","e">>, <<"h","i">> }

\* a query of 9 characters and two terms, one of 4 characters, and one of 9
\* characters without a term
TurnQueries ==
    { <<"u","s","e","r"," ","n","a","m","e">>, <<"u","s","e","r">>,
      <<"a"," ","b"," ","c"," ","d"," ","e">> }

\* the conversation a search is given, "None" for none
TurnScopes == {"c1", "None"}

TurnLimits == {2}

\* the turns table the process finds: a turn of each conversation, ingested
\* by an earlier process
OldTurns ==
    << [id |-> 1, conversation_id |-> "c1", role |-> <<"u","s","e","r">>,
        content |-> <<"U","s","e","r"," ","n","a","m","e">>, created_at |-> 0],
       [id |-> 2, conversation_id |-> "c2", role |-> <<"u","s","e","r">>,
        content |-> <<"m","y"," ","n","a","m","e">>, created_at |-> 5] >>

\* the first id and the first clock reading of the process
TurnFirstId == 10

TurnClock == 7090

\* how long the program may rest between two calls
TurnRests == {TTL_SEARCH - 1}

\* no call is running and time passes
TurnsAge(d) ==
    /\ Quiescent
    /\ now + d <= MaxTurnClock
    /\ now' = now + d
    /\ UNCHANGED <<brain, stores, write_lock, initialized, pc, op, sub, result, next_id>>

\* MemoryUnifier.__init__ over a DurableStore that holds the old turns
InitTurns ==
    /\ facts = <<>>
    /\ people = <<>>
    /\ events = <<>>
    /\ turns = OldTurns
    /\ conversations = {"c1", "c2"}
    /\ chroma = {}
    /\ diskcache = {}
    /\ audit = <<>>
    /\ snapshots = <<>>
    /\ write_lock = 0
    /\ initialized = FALSE
    /\ pc = [i \in 1..MaxTurnCalls |-> "new"]
    /\ op = [i \in 1..MaxTurnCalls |-> NoOp]
    /\ sub = [i \in 1..MaxTurnCalls |-> NoSubs]
    /\ result = [i \in 1..MaxTurnCalls |-> NoResult]
    /\ next_id = TurnFirstId
    /\ now = TurnClock
    /\ InitBrain("all")

NextTurns ==
    \/ \E i \in Calls, c \in ChatConversations, t \in TurnContents :
           Quiescent /\ ingest_turn(i, c, <<"u","s","e","r">>, t)
    \/ \E i \in Calls, q \in TurnQueries, c \in TurnScopes, limit \in TurnLimits :
           Quiescent /\ search(i, q, c, limit)
    \/ \E d \in TurnRests : TurnsAge(d)
    \/ \E i \in Calls : AcquireLock(i)
    \/ \E i \in Calls, b \in Backends : InGatherOrder(i, b) /\ BackendOk(i, b)
    \/ \E i \in Calls : GatherFinish(i)

SpecTurns == InitTurns /\ [][NextTurns]_vars

\* the step takes the search call i from its start to its return
C31_SearchStep(i) == pc[i] = "new" /\ pc'[i] = "done" /\ op'[i].kind = "search"

\* h is a recent-turn hit
C31_IsTurnHit(h) == h.kind = "turn" /\ h.backend = "sqlite"

\* the turn r may be a recent-turn hit of the search o whatever its age: the
\* normalized query has 8 characters or more, a term was extracted, the
\* lower-cased content of r holds a term, and r is of the conversation given
C31_MayHit(r, o) ==
    LET q_norm == Lower(Strip(o.q))
        terms == SearchTerms(q_norm)
    IN  /\ Len(q_norm) >= 8
        /\ terms # <<>>
        /\ \E n \in DOMAIN terms : Contains(Lower(r.content), terms[n])
        /\ (o.conversation_id # "None" => r.conversation_id = o.conversation_id)

-----------------------------------------------------------------------------
\* the planner output holds no JSON object, holds invalid JSON, or is an
\* object whose type is neither 'final' nor 'tool'
C32_Malformed(raw) ==
    \/ ~ raw.found
    \/ ~ raw.loads
    \/ raw.obj.type \notin {{"final"}, {"tool"}}

\* the history entry of a malformed planner output
C32_Entry(raw) ==
    IF ~ raw.found THEN "planner_output_unparseable"
    ELSE IF ~ raw.loads THEN "planner_json_error"
    ELSE "planner_invalid_type"

\* C32: a planning call that returns a malformed output uses up one step,
\* appends one entry to the history, executes no tool and leaves the tool log
\* as it is; the loop goes on to its next planning call, or to the
\* summarization call when that was step max(1, max_steps), and does not
\* return.
C32_MalformedOutputTakesOneStep ==
    [][(PlanningStep /\ C32_Malformed(LastRaw(loop')))
          => /\ loop'.i = loop.i + 1
             /\ loop'.history =
                    Append(loop.history,
                           [step |-> loop.i + 1, what |-> C32_Entry(LastRaw(loop'))])
             /\ loop'.executed = loop.executed
             /\ loop'.tool_calls = loop.tool_calls
             /\ router' = router
             /\ loop'.summarized = 0
             /\ loop'.pc = IF loop.i + 1 < C21_Bound THEN "generate" ELSE "summarize"]_vars

\* max_steps = 3: an output without an object, one of invalid JSON and an
\* object of type "note" took the three steps, and the loop returned after
\* the summarization call without a tool call
C32_Witness ==
    /\ loop.pc = "done"
    /\ loop.max_steps = 3
    /\ loop.raws = << Unparseable, BadJson, Json([NoObj EXCEPT !.type = {"note"}]) >>
    /\ Len(loop.history) = 3
    /\ loop.executed = 0
    /\ loop.tool_calls = loop.given
    /\ loop.summarized = 1

-----------------------------------------------------------------------------
\* some planning call of the invocation returned a 'final' object
C33_SomeFinal ==
    \E k \in DOMAIN loop.raws :
        loop.raws[k].found /\ loop.raws[k].loads /\ loop.raws[k].obj.type = {"final"}

\* every step of the invocation was taken and none returned 'final'
C33_StepsExhausted == loop.pc = "done" /\ loop.planned > 0 /\ ~ C33_SomeFinal

\* the summarization call is made once when the steps are exhausted and never
\* after a 'final' object
C33_SummarizedOnce ==
    /\ loop.summarized <= 1
    /\ C33_StepsExhausted => (loop.summarized = 1 /\ loop.planned = C21_Bound)
    /\ C33_SomeFinal => loop.summarized = 0

\* C33 as stated: the summarization call is made exactly once when all steps
\* complete without a 'final' object and never when a step returned 'final';
\* its output, stripped, is the assistant text of the loop, and that text is
\* not empty.
C33_SummaryIsNonEmptyText ==
    /\ C33_SummarizedOnce
    /\ loop.summarized = 1
           => /\ \E text \in loop.summary : loop.assistant = Strip(text)
              /\ loop.assistant # <<>>

\* C33, amended: the summarization call is made exactly once when all
\* max(1, max_steps) steps complete without a 'final' object and never when a
\* step returned 'final'; its output, stripped, is the assistant text of the
\* loop, and that text is empty exactly when the output holds nothing but
\* whitespace.
C33_SummaryIsStrippedText ==
    /\ C33_SummarizedOnce
    /\ loop.summarized = 1
           => \E text \in loop.summary :
                  /\ loop.assistant = Strip(text)
                  /\ (loop.assistant = <<>>) = (\A k \in DOMAIN text : text[k] \in Whitespace)

\* max_steps = 2: two steps without a 'final' object, one of them a tool
\* call, then the summarization call, whose output "Done.\n" came back as
\* "Done."
C33_Witness ==
    /\ loop.pc = "done"
    /\ loop.max_steps = 2
    /\ loop.planned = 2
    /\ loop.executed = 1
    /\ ~ C33_SomeFinal
    /\ loop.summarized = 1
    /\ loop.summary = { <<"D","o","n","e",".","\n">> }
    /\ loop.assistant = <<"D","o","n","e",".">>

-----------------------------------------------------------------------------
(* Several tasks call initialize() on a fresh instance at once, and each goes *)
(* on to a call of its own when its initialize() has returned.                *)

MaxBootTasks == 3

BootQueries == { <<"u","s","e","r">> }

BootLimits == {2}

InitBoot ==
    /\ \E d \in ColdStores :
           /\ facts = d.facts
           /\ people = d.people
           /\ events = d.events
           /\ chroma \in ColdIndexes(d)
    /\ turns = <<>>
    /\ conversations = {}
    /\ diskcache = {}
    /\ audit = <<>>
    /\ snapshots = <<>>
    /\ write_lock = 0
    /\ initialized = FALSE
    /\ pc = [i \in 1..MaxBootTasks |-> "new"]
    /\ op = [i \in 1..MaxBootTasks |-> NoOp]
    /\ sub = [i \in 1..MaxBootTasks |-> NoSubs]
    /\ result = [i \in 1..MaxBootTasks |-> NoResult]
    /\ next_id = ColdFirstId
    /\ now = ColdClock
    /\ memory_save_mode = "all"
    /\ pending_memory = [c \in ChatConversations |-> <<>>]
    /\ chat = IdleChat
    /\ router = IdleRouter
    /\ loop = IdleLoop
    /\ registry = EmptyRegistry
    /\ boot = [NoBoot EXCEPT !.pc = [t \in 1..MaxBootTasks |-> "new"]]

NextBoot ==
    \/ \E t \in BootTasks : BootEnter(t)
    \/ \E t \in BootTasks : BootAcquire(t)
    \/ \E t \in BootTasks : BootRecheck(t)
    \/ \E t \in BootTasks : BootSqlite(t)
    \/ \E t \in BootTasks : BootJson(t)
    \/ \E t \in BootTasks : BootEnsure(t)
    \/ \E t \in BootTasks : BootRebuild(t)
    \/ \E t \in BootTasks : BootRebuildRaises(t)
    \/ \E t \in BootTasks : BootSet(t)
    \/ \E i \in Calls, e \in Entities, c \in Confidences :
           BootProceeds /\ Quiescent /\ add_fact(i, e, <<"n","a","m","e">>, <<"J","o">>, c)
    \/ \E i \in Calls, q \in BootQueries, limit \in BootLimits :
           BootProceeds /\ Quiescent /\ search(i, q, "c1", limit)
    \/ \E i \in Calls, t \in Contents :
           BootProceeds /\ Quiescent /\ ingest_turn(i, "c1", <<"u","s","e","r">>, t)
    \/ \E i \in Calls : AcquireLock(i)
    \/ \E i \in Calls, b \in Backends : InGatherOrder(i, b) /\ BackendOk(i, b)
    \/ \E i \in Calls : GatherFinish(i)

SpecBoot == InitBoot /\ [][NextBoot]_vars

\* the tasks between the second test of initialize() and its last statement
C34_Setting == {t \in BootTasks : boot.pc[t] \in {"sqlite", "json", "ensure", "rebuild", "set"}}

\* the tasks whose initialize() has returned
C34_Past == {t \in BootTasks : boot.pc[t] = "past"}

-----------------------------------------------------------------------------
\* C35: in ToolRouter.execute a backoff wait occurs only between two
\* attempts: the n-th wait follows the n-th failed attempt and lasts
\* 0.2 s x n (2 n tenths of a second), every wait is followed by a further
\* attempt, and once the last allowed attempt has failed the failed
\* ToolResult is returned without a further wait, so an execute that has
\* returned has waited one time less than it has made attempts.
C35_BackoffOnlyBetweenAttempts ==
    /\ \A n \in 1 .. Len(router.slept) : router.slept[n] = 2 * n
    /\ Len(router.slept) <= router.invoked
    /\ (Returned /\ router.invoked > 0) => Len(router.slept) = router.invoked - 1

-----------------------------------------------------------------------------
(* Chats of two conversations in ask mode that stage, approve and deny. *)

MaxQueueCalls == 9

\* a family fact each of two wives, an approval and a denial
QueueUtterances ==
    { <<"m","y"," ","w","i","f","e"," ","i","s"," ","J","o">>,
      <<"m","y"," ","w","i","f","e"," ","i","s"," ","A","l">>, <<" ","y","e","s"," ">>, <<"n","o">> }

InitQueues == InitUnifier(MaxQueueCalls) /\ InitBrain("ask")

NextQueues ==
    \/ \E c \in ChatConversations, m \in QueueUtterances : ChatStart(c, m)
    \/ ChatResume
    \/ ChatAdvance
    \/ \E i \in Calls :
           /\ WantsCall("add_fact")
           /\ add_fact(i, Head(chat.todo).entity, Head(chat.todo).attribute,
                       Head(chat.todo).value, Head(chat.todo).confidence)
    \/ \E i \in Calls :
           /\ WantsCall("ingest_turn")
           /\ ingest_turn(i, chat.conversation_id, Head(chat.todo).role,
                          Head(chat.todo).content)
           /\ now' = now + 1
    \/ \E i \in Calls :
           /\ WantsCall("search")
           /\ search(i, Head(chat.todo).q, chat.conversation_id, CHAT_SEARCH_LIMIT)
    \/ \E i \in Calls : AcquireLock(i)
    \/ \E i \in Calls, b \in Backends : InGatherOrder(i, b) /\ BackendOk(i, b) /\ now' = now
    \/ \E i \in Calls : GatherFinish(i)

SpecQueues == InitQueues /\ [][NextQueues]_vars

\* the facts staged in the conversation c by the chats that have ended and
\* by the chat that runs, as the rows the chats left in the turns table tell:
\* the family facts of every user turn of the conversation
C36_StagedIn(c) ==
    UNION { {pf \in {ExtractPending(turns[k].content)[j] :
                         j \in DOMAIN ExtractPending(turns[k].content)} : TRUE} :
            k \in {j \in DOMAIN turns : turns[j].conversation_id = c
                                         /\ turns[j].role = <<"u","s","e","r">>} }

\* C36: a step of a chat of conversation C1 (staging, confirming, denying)
\* leaves the pending queue of every other conversation C2 as it is, and a
\* fact that the confirmation flush of a chat of C1 hands to add_fact is a
\* fact that an utterance of C1 staged.
C36_QueuesAreSeparate ==
    [][/\ \A c \in ChatConversations :
              c # chat.conversation_id => pending_memory'[c] = pending_memory[c]
       /\ \A i \in Calls :
              (/\ pc[i] = "new"
               /\ pc'[i] # "new"
               /\ op'[i].kind = "add_fact"
               /\ chat.phase = "flush")
                  => \E pf \in C36_StagedIn(chat.conversation_id) : HandsOver(pf, op'[i])]_vars

\* a wife was staged in c2 and another in c1; the approval in c1 has written
\* the wife of c1 and left the queue of c2 with the wife of c2
C36_Witness ==
    /\ chat.conversation_id = "c1"
    /\ chat.phase = "ack"
    /\ is_memory_confirm(chat.message)
    /\ pending_memory["c1"] = <<>>
    /\ Len(pending_memory["c2"]) = 1
    /\ Len(facts) = 1
    /\ facts[1].value # pending_memory["c2"][1].value

-----------------------------------------------------------------------------
\* the staged facts of the user turns the turns table holds, one for each
\* time an utterance staged a fact: the turn and the place in its list
C37_Stagings ==
    { <<k, j>> \in (DOMAIN turns) \X (1 .. 3) :
          /\ turns[k].role = <<"u","s","e","r">>
          /\ j \in DOMAIN ExtractPending(turns[k].content) }

\* the fact the staging st put on the queue
C37_Staged(st) == ExtractPending(turns[st[1]].content)[st[2]]

\* C37: each staged PendingFact is written to the DurableStore at most once,
\* whatever the chats of its conversation: in ask mode the facts table holds,
\* for every entity, attribute and value of the staged kind, no more rows
\* than there were stagings of that fact.
C37_StagedFactWrittenOnce ==
    memory_save_mode = "ask" =>
        \A k \in DOMAIN facts :
            facts[k].attribute \in StagedAttributes =>
                Cardinality({j \in DOMAIN facts :
                                 /\ facts[j].entity = facts[k].entity
                                 /\ facts[j].attribute = facts[k].attribute
                                 /\ facts[j].value = facts[k].value})
                    <= Cardinality({st \in C37_Stagings :
                                        /\ C37_Staged(st).entity = facts[k].entity
                                        /\ C37_Staged(st).attribute = facts[k].attribute
                                        /\ C37_Staged(st).value = facts[k].value})

-----------------------------------------------------------------------------
\* the step takes the search call i from its start to its return
C38_SearchStep(i) == pc[i] = "new" /\ pc'[i] = "done" /\ op'[i].kind = "search"

\* the fact ids that the calls of purge_facts with dry_run = false that have
\* returned have deleted
C38_Purged ==
    UNION { {result[j].ids[n] : n \in DOMAIN result[j].ids} :
            j \in {c \in Calls : /\ pc[c] = "done"
                                 /\ op[c].kind = "purge_facts"
                                 /\ ~ op[c].dry_run
                                 /\ result[c].deleted > 0} }

\* C38: after purge_facts(dry_run = false) has returned, no later search
\* returns a hit whose id is one of the deleted fact ids, whether the hit
\* comes from the DurableStore, from the SemanticIndex or from a cached
\* search result.
C38_NoHitOfPurgedFact ==
    [][\A i \in Calls :
          C38_SearchStep(i) =>
              \A n \in DOMAIN result'[i].hits : result'[i].hits[n].id \notin C38_Purged]_vars

-----------------------------------------------------------------------------
(* A write and a rebuild of the semantic index that run at the same time    *)
(* over an existing memory: the backend coroutines of the write's gather    *)
(* finish in any order between the steps of the rebuild.                    *)

MaxRebuildCalls == 2

InitRebuild ==
    /\ \E d \in ColdStores :
           /\ facts = d.facts
           /\ people = d.people
           /\ events = d.events
           /\ chroma = RebuiltIndex(d.facts, d.people, d.events)
    /\ turns = <<>>
    /\ conversations = {}
    /\ diskcache = {}
    /\ audit = <<>>
    /\ snapshots = <<>>
    /\ write_lock = 0
    /\ initialized = TRUE
    /\ pc = [i \in 1..MaxRebuildCalls |-> "new"]
    /\ op = [i \in 1..MaxRebuildCalls |-> NoOp]
    /\ sub = [i \in 1..MaxRebuildCalls |-> NoSubs]
    /\ result = [i \in 1..MaxRebuildCalls |-> NoResult]
    /\ next_id = ColdFirstId
    /\ now = ColdClock
    /\ InitBrain("all")

NextRebuild ==
    \/ \E i \in Calls, e \in Entities, c \in Confidences :
           add_fact(i, e, <<"n","a","m","e">>, <<"B","o">>, c)
    \/ \E i \in Calls, n \in PersonNames, a \in AttributeMaps : upsert_person(i, n, a)
    \/ \E i \in Calls, d \in EventDates, n \in EventNotes : add_event(i, d, n)
    \/ \E i \in Calls : RebuildReset(i)
    \/ \E i \in Calls : RebuildRead(i)
    \/ \E i \in Calls : RebuildUpsert(i)
    \/ \E i \in Calls : AcquireLock(i)
    \/ \E i \in Calls, b \in Backends : BackendOk(i, b)
    \/ \E i \in Calls : GatherFinish(i)

SpecRebuild == InitRebuild /\ [][NextRebuild]_vars

\* the ids of the records the DurableStore holds
C39_RecordIds ==
    {facts[k].id : k \in DOMAIN facts} \cup {people[k].id : k \in DOMAIN people}
        \cup {events[k].id : k \in DOMAIN events}

\* C39: once an add_fact, upsert_person or add_event and a
\* rebuild_semantic_index have both returned, however their steps were
\* interleaved, the SemanticIndex holds a document for the record the write
\* put into the DurableStore.
C39_RebuildKeepsNewRecord ==
    \A i, j \in Calls :
        (/\ pc[i] = "done"
         /\ op[i].kind \in {"add_fact", "upsert_person", "add_event"}
         /\ result[i].status = "returned"
         /\ op[i].id \in C39_RecordIds
         /\ pc[j] = "done"
         /\ op[j].kind = "rebuild_semantic_index"
         /\ result[j].status = "returned")
            => \E d \in chroma : d.id = op[i].id

-----------------------------------------------------------------------------
\* the step is the return of the write call i of the kind
C40_Returns(i, kind) ==
    /\ pc[i] # "done"
    /\ pc'[i] = "done"
    /\ op'[i].kind = kind
    /\ result'[i].status = "returned"

\* C40: every id that add_fact, upsert_person or add_event returns is the id
\* of a record the DurableStore holds when the call returns: a row of the
\* facts, the people or the events table.
C40_ReturnedIdIsStored ==
    [][\A i \in Calls :
          /\ C40_Returns(i, "add_fact")
                => \E k \in DOMAIN facts' : facts'[k].id = result'[i].id
          /\ C40_Returns(i, "upsert_person")
                => \E k \in DOMAIN people' : people'[k].id = result'[i].id
          /\ C40_Returns(i, "add_event")
                => \E k \in DOMAIN events' : events'[k].id = result'[i].id]_vars

====
